---- MODULE Spec2Model ----
(***************************************************************************)
(* TAM-JSON v1 (Tile Availability Map): the encoder (tam-encoder.ts, kept  *)
(* as src/unnamed/part_002) and the decoder (src/tam-json/tam-decoder.ts). *)
(*                                                                         *)
(* Numbers.  A JavaScript number is modelled as an integer, or as NaN (a   *)
(* missing field reads as undefined, which every comparison and every      *)
(* arithmetic operation used here treats exactly like NaN).  Comparisons   *)
(* go through JLt/JLe/JGt/JGe so that any comparison with NaN is false.    *)
(*                                                                         *)
(* Longitudes are integer degrees.  A fractional column lonToXf(lon, n) is *)
(* kept exactly, as its numerator over LonSpan = 360.                      *)
(*                                                                         *)
(* Latitudes are integers in units of 1e-4 degree.  The Mercator ordinate  *)
(* y(lat) in [0,1] is tabulated for the sampled latitudes as the pair      *)
(* (floor(y*YScale), ceil(y*YScale)); since every n = 2^z used divides     *)
(* YScale, floor(y*n) and ceil(y*n) are recovered exactly from that pair.  *)
(***************************************************************************)
EXTENDS Integers, Sequences, FiniteSets, TLC

VARIABLES
    inv,          \* encodeTamJson: the inventory (inv.items)
    optBaseZoom,  \* encodeTamJson: opts.baseZoom, or Undefined
    optZmax,      \* encodeTamJson: opts.zmax, or Undefined
    pc,           \* position in the encode -> decode -> query pipeline
    cursor,       \* encodeTamJson: index of the next inventory item
    enc,          \* encodeTamJson locals: baseZoom, zmax, baseDatasetId
    datasets,     \* encodeTamJson: the dataset table
    perZoomRows,  \* encodeTamJson: z -> (y -> runs)
    obj,          \* the TamJson object handed to TAM.fromObject
    tam,          \* the decoded TAM (or the error fromObject threw)
    res,          \* the last query and its result
    runs,         \* one row's interval list (overlay engine on its own)
    lastCall,     \* the last overlayRange call made on runs
    firstOut      \* the object an earlier encodeTamJson call returned, if any

vars == << inv, optBaseZoom, optZmax, pc, cursor, enc, datasets, perZoomRows,
           obj, tam, res, runs, lastCall, firstOut >>

-----------------------------------------------------------------------------
(* JavaScript numbers *)

\* NaN, also standing for a missing (undefined) numeric field.
NaN == -999999
\* An option that was not passed (typeof opts.x !== "number").
Undefined == -888888

JLt(a, b) == a # NaN /\ b # NaN /\ a < b
JLe(a, b) == a # NaN /\ b # NaN /\ a <= b
JGt(a, b) == a # NaN /\ b # NaN /\ a > b
JGe(a, b) == a # NaN /\ b # NaN /\ a >= b

\* Math.max(a, b)
JMax(a, b) == IF a = NaN \/ b = NaN THEN NaN ELSE IF a >= b THEN a ELSE b

\* x | 0 (ToInt32): NaN and undefined become 0, small integers are kept.
ToInt32(a) == IF a = NaN THEN 0 ELSE a

\* clamp(v, min, max): v < min ? min : v > max ? max : v
clamp(v, min, max) == IF JLt(v, min) THEN min ELSE IF JGt(v, max) THEN max ELSE v

\* 1 << z
RECURSIVE Pow2(_)
Pow2(z) == IF z <= 0 THEN 1 ELSE 2 * Pow2(z - 1)

Range(a, b, d) == [x0 |-> a, x1 |-> b, ds |-> d]

-----------------------------------------------------------------------------
(* Row overlay engine *)

RECURSIVE mergeFrom(_, _, _, _)
mergeFrom(rs, i, curr, out) ==
    IF i > Len(rs) THEN Append(out, curr)
    ELSE LET r == rs[i] IN
         IF r.ds = curr.ds /\ r.x0 = curr.x1 + 1
         THEN mergeFrom(rs, i + 1, [curr EXCEPT !.x1 = r.x1], out)
         ELSE mergeFrom(rs, i + 1, r, Append(out, curr))

\* Mutant of mergeNeighbors: adjacent runs are left unmerged.
mergeNeighborsOff(rs) == rs

\* mergeNeighbors(runs): merge adjacent runs with the same dataset.
mergeNeighbors(rs) ==
    IF Len(rs) <= 1 THEN rs ELSE mergeFrom(rs, 2, rs[1], << >>)

\* while (i < runs.length && runs[i].x1 < x0) out.push(runs[i++])
RECURSIVE skipBefore(_, _, _)
skipBefore(rs, i, x0) ==
    IF i <= Len(rs) /\ JLt(rs[i].x1, x0) THEN skipBefore(rs, i + 1, x0) ELSE i

\* while (i < runs.length) out.push(runs[i++])
RestFrom(rs, i) == SubSeq(rs, i, Len(rs))

\* The loop "Process runs that overlap [x0..x1]" and what follows it.
RECURSIVE overlapLoop(_, _, _, _, _, _, _)
overlapLoop(rs, i, prevPos, out, x0, x1, ds) ==
    IF i <= Len(rs) /\ JLe(rs[i].x0, x1)
    THEN LET r    == rs[i]
             out1 == IF JLe(prevPos, r.x0 - 1)
                     THEN Append(out, Range(prevPos, r.x0 - 1, ds)) ELSE out
         IN  IF JGt(r.x1, x1)
             THEN LET out2 == IF JLe(r.x0, x1) /\ JLe(prevPos, x1)
                              THEN Append(out1, Range(JMax(prevPos, r.x0), x1, ds))
                              ELSE out1
                  IN  mergeNeighbors(Append(out2, Range(x1 + 1, r.x1, r.ds))
                                     \o RestFrom(rs, i + 1))
             ELSE overlapLoop(rs, i + 1, JMax(prevPos, r.x1 + 1), out1, x0, x1, ds)
    ELSE LET out1 == IF JLe(prevPos, x1)
                     THEN Append(out, Range(prevPos, x1, ds)) ELSE out
         IN  mergeNeighbors(out1 \o RestFrom(rs, i))

\* Mutant of overlayRange: the run overlapping x0 loses its left portion.
overlayRangeNoLeft(rs, x0, x1, ds) ==
    IF JGt(x0, x1) THEN rs
    ELSE LET i    == skipBefore(rs, 1, x0)
             out0 == SubSeq(rs, 1, i - 1)
         IN  IF i <= Len(rs) /\ JLt(rs[i].x0, x0) /\ JGe(rs[i].x1, x0)
             THEN IF JGt(rs[i].x1, x1)
                  THEN mergeNeighbors(Append(Append(out0, Range(x0, x1, ds)),
                                             Range(x1 + 1, rs[i].x1, rs[i].ds))
                                      \o RestFrom(rs, i + 1))
                  ELSE overlapLoop(rs, i + 1, x0, out0, x0, x1, ds)
             ELSE overlapLoop(rs, i, x0, out0, x0, x1, ds)

\* overlayRange(runs, x0, x1, ds)
overlayRange(rs, x0, x1, ds) ==
    IF JGt(x0, x1) THEN rs
    ELSE LET i    == skipBefore(rs, 1, x0)
             out0 == SubSeq(rs, 1, i - 1)
         IN  IF i <= Len(rs) /\ JLt(rs[i].x0, x0) /\ JGe(rs[i].x1, x0)
             THEN LET left == Range(rs[i].x0, x0 - 1, rs[i].ds)
                      out1 == IF JLe(left.x0, left.x1) THEN Append(out0, left) ELSE out0
                  IN  IF JGt(rs[i].x1, x1)
                      THEN LET out2 == IF JLe(x0, x1)
                                       THEN Append(out1, Range(x0, x1, ds)) ELSE out1
                           IN  mergeNeighbors(Append(out2, Range(x1 + 1, rs[i].x1, rs[i].ds))
                                              \o RestFrom(rs, i + 1))
                      ELSE overlapLoop(rs, i + 1, x0, out1, x0, x1, ds)
             ELSE overlapLoop(rs, i, x0, out0, x0, x1, ds)

\* The Range objects of the list handed to overlayRange, each carrying its
\* place in that list: out.push(runs[i]) puts the object itself in the output,
\* { x0, x1, ds } literals are new objects (no ref).
withRefs(rs) ==
    [k \in 1 .. Len(rs) |-> [x0 |-> rs[k].x0, x1 |-> rs[k].x1, ds |-> rs[k].ds, ref |-> k]]

\* The input list as the caller sees it after overlayRange(runs, x0, x1, ds):
\* mergeNeighbors assigns curr.x1 on the objects of its argument, so an input
\* object that ends up in the output has the fields the output shows.
inputAfterOverlay(rs, x0, x1, ds) ==
    LET out == overlayRange(withRefs(rs), x0, x1, ds)
        Holds(j, k) == "ref" \in DOMAIN out[j] /\ out[j].ref = k
    IN  [k \in 1 .. Len(rs) |->
            IF \E j \in 1 .. Len(out) : Holds(j, k)
            THEN LET e == out[CHOOSE j \in 1 .. Len(out) : Holds(j, k)]
                 IN  Range(e.x0, e.x1, e.ds)
            ELSE rs[k]]

-----------------------------------------------------------------------------
(* Projector *)

\* Denominator of a fractional column: ((lon + 180) / 360) * n.
LonSpan == 360
\* Fixed-point scale of the tabulated Mercator ordinate.
YScale == 65536
\* log(x / 0) = Infinity: beyond every finite ordinate at YScale (times any n
\* modelled, it still fits the checker's 32-bit integers).
Infinity == YScale * 256

\* WEBMERC_MAX_LAT = 85.0511287798066, in units of 1e-4 degree rounded up to
\* the grid: for a grid latitude v, v > 85.0511287798066 iff v >= 850512, and
\* v >= 85.0511287798066 - 1e-6 iff v >= 850512.
WEBMERC_MAX_LAT == 850512
WEBMERC_MIN_LAT == -WEBMERC_MAX_LAT

\* Math.floor / Math.ceil of the fraction v / s.
JFloor(v, s) == IF v = NaN THEN NaN ELSE v \div s
JCeil(v, s) == IF v = NaN THEN NaN ELSE -((-v) \div s)

\* JavaScript %: the remainder takes the sign of the dividend.
JRem(a, b) == IF a >= 0 THEN a % b ELSE -((-a) % b)

\* approx(a, b): |a - b| <= 1e-6, on integer degrees.
approx(a, b) == a # NaN /\ b # NaN /\ a = b

\* 0.5 - log((1 + s) / (1 - s)) / (4 * PI) with s = sin(lat * PI / 180), as
\* << floor(y * YScale), ceil(y * YScale) >>, for the sampled latitudes
\* (1e-4 degree): 90, 85.0512, 60, 30, 0, -30, -60, -85.0512, -90, and 100, 135
\* beyond the poles (sin(100 deg) = sin(80 deg), sin(135 deg) = sin(45 deg)).
MercY(lat) ==
    CASE lat = NaN      -> << NaN, NaN >>
      [] lat = 900000   -> << -Infinity, -Infinity >>
      [] lat = 850512   -> << -1, 0 >>
      [] lat = 600000   -> << 19031, 19032 >>
      [] lat = 300000   -> << 27038, 27039 >>
      [] lat = 0        -> << 32768, 32768 >>
      [] lat = -300000  -> << 38497, 38498 >>
      [] lat = -600000  -> << 46504, 46505 >>
      [] lat = -850512  -> << 65536, 65537 >>
      [] lat = -900000  -> << Infinity, Infinity >>
      [] lat = 1000000  -> << 7357, 7358 >>
      [] lat = 1350000  -> << 23574, 23575 >>

\* lonToXf(lon, n), times LonSpan.
lonToXf(lon, n) ==
    IF lon = NaN THEN NaN
    ELSE LET l == IF lon < -180 \/ lon > 180
                  THEN JRem(JRem(lon + 180, 360) + 360, 360) - 180
                  ELSE lon
         IN  (l + 180) * n

\* latToYf(lat, n), times YScale, as << lower, upper >>.
latToYf(lat, n) ==
    LET phi == clamp(lat, WEBMERC_MIN_LAT, WEBMERC_MAX_LAT)
        y   == MercY(phi)
    IN  IF y[1] = NaN THEN << NaN, NaN >>
        ELSE << clamp(y[1] * n, 0, n * YScale), clamp(y[2] * n, 0, n * YScale) >>

\* Mutant of xRangesAtZoom: the rectangle is never split at the antimeridian.
xRangesNoSplit(minLon, maxLon, z) ==
    LET n   == Pow2(z)
        xf0 == lonToXf(minLon, n)
        xf1 == lonToXf(maxLon, n)
    IN  << Range(clamp(IF xf0 = NaN THEN NaN ELSE JFloor(xf0, LonSpan), 0, n - 1),
                 clamp(IF xf1 = NaN THEN NaN ELSE JCeil(xf1, LonSpan) - 1, 0, n - 1), 0) >>

\* xRangesAtZoom(minLon, maxLon, z): the list of ranges (n is 1 << z).
xRangesAtZoom(minLon, maxLon, z) ==
    LET n   == Pow2(z)
        xf0 == lonToXf(minLon, n)
        xf1 == lonToXf(maxLon, n)
    IN  IF JLe(minLon, maxLon)
        THEN << Range(clamp(JFloor(xf0, LonSpan), 0, n - 1),
                      clamp(IF xf1 = NaN THEN NaN ELSE JCeil(xf1, LonSpan) - 1, 0, n - 1), 0) >>
        ELSE << Range(clamp(JFloor(xf0, LonSpan), 0, n - 1), n - 1, 0),
                Range(0, clamp(IF xf1 = NaN THEN NaN ELSE JCeil(xf1, LonSpan) - 1, 0, n - 1), 0) >>

\* yRangeAtZoom(minLat, maxLat, z): << y0, y1 >>.
yRangeAtZoom(minLat, maxLat, z) ==
    LET n    == Pow2(z)
        yTop == latToYf(maxLat, n)
        yBot == latToYf(minLat, n)
    IN  << clamp(JFloor(yTop[1], YScale), 0, n - 1),
           clamp(IF yBot[2] = NaN THEN NaN ELSE JCeil(yBot[2], YScale) - 1, 0, n - 1) >>

\* isGlobalItem(it)
isGlobalItem(it) ==
    /\ approx(it.min_lon, -180) /\ approx(it.max_lon, 180)
    /\ JLe(it.min_lat, WEBMERC_MIN_LAT) /\ JGe(it.max_lat, WEBMERC_MAX_LAT)

-----------------------------------------------------------------------------
(* Encoder *)

\* The rows of zoom z: perZoomRows.get(z), an empty map when there is none.
RowsOf(pzr, z) == IF z \in DOMAIN pzr THEN pzr[z] ELSE << >>

\* rows.get(y) || []
RunsOf(rows, y) == IF y \in DOMAIN rows THEN rows[y] ELSE << >>

\* for (const r of rangesList) { if (...) continue; runArr = overlayRange(...) }
RECURSIVE overlayRanges(_, _, _, _, _)
overlayRanges(runArr, rangesList, k, n, ds) ==
    IF k > Len(rangesList) THEN runArr
    ELSE LET r == rangesList[k] IN
         IF JLt(r.x0, 0) \/ JGe(r.x1, n) \/ JGt(r.x0, r.x1)
         THEN overlayRanges(runArr, rangesList, k + 1, n, ds)
         ELSE overlayRanges(overlayRange(runArr, r.x0, r.x1, ds), rangesList, k + 1, n, ds)

\* The y loop of insertRectCoverage at one zoom: y0 <= y <= y1 is empty when
\* either bound is NaN.
RowSpan(y0, y1) == IF y0 = NaN \/ y1 = NaN THEN {} ELSE y0 .. y1

\* One iteration of the z loop of insertRectCoverage: the new rows of zoom z.
insertAtZoom(rows, item, ds, z) ==
    LET yr == yRangeAtZoom(item.min_lat, item.max_lat, z)
        rl == xRangesAtZoom(item.min_lon, item.max_lon, z)
        ys == RowSpan(yr[1], yr[2])
    IN  [y \in (DOMAIN rows) \cup ys |->
            IF y \in ys THEN overlayRanges(RunsOf(rows, y), rl, 1, Pow2(z), ds)
            ELSE rows[y]]

\* Mutant of itemZooms: the item is overlaid at its top zoom only.
itemZoomsTopOnly(item, zbase, zmax) ==
    LET zTop == clamp(item.max_zoom, zbase + 1, zmax)
    IN  IF zTop = NaN \/ zbase + 1 > zTop THEN {} ELSE { zTop }

\* The zooms insertRectCoverage visits: zbase + 1 .. zTop.
itemZooms(item, zbase, zmax) ==
    LET zTop == clamp(item.max_zoom, zbase + 1, zmax)
    IN  IF zTop = NaN THEN {} ELSE (zbase + 1) .. zTop

\* insertRectCoverage(perZoomRows, item, ds, zbase, zmax)
insertRectCoverage(pzr, item, ds, zbase, zmax) ==
    LET zs == itemZooms(item, zbase, zmax)
    IN  [z \in (DOMAIN pzr) \cup zs |->
            IF z \in zs THEN insertAtZoom(RowsOf(pzr, z), item, ds, z) ELSE pzr[z]]

\* A missing item name (it.name is undefined).
NoName == "(none)"

\* `dataset-${datasets.length}`
DefaultName(len) ==
    << "dataset-0", "dataset-1", "dataset-2", "dataset-3", "dataset-4", "dataset-5" >>[len + 1]

\* dsIndex.get(name): the 0-based index of name in the dataset table.
dsIndexOf(table, name) == (CHOOSE i \in 1 .. Len(table) : table[i] = name) - 1

\* Mutant of ensureDs: the name is appended whether or not the table has it.
ensureDsAlways(table, name) == Append(table, name)

\* ensureDs(name): the table after the call.
ensureDs(table, name) ==
    IF \E i \in 1 .. Len(table) : table[i] = name THEN table ELSE Append(table, name)

RECURSIVE maxZoomOf(_, _)
maxZoomOf(items, k) ==
    IF k > Len(items) THEN 0 ELSE JMax(ToInt32(items[k].max_zoom), maxZoomOf(items, k + 1))

\* Mutant of topGlobal: the first global item, whatever its max_zoom.
topGlobalFirst(items) ==
    items[CHOOSE i \in 1 .. Len(items) :
             isGlobalItem(items[i]) /\ \A j \in 1 .. i - 1 : ~isGlobalItem(items[j])]

\* items.filter(isGlobalItem).sort((a,b) => (b.max_zoom|0) - (a.max_zoom|0))[0]:
\* the first global item among those of highest max_zoom (the sort is stable).
topGlobal(items) ==
    LET G    == { i \in 1 .. Len(items) : isGlobalItem(items[i]) }
        best == CHOOSE i \in G :
                    \A j \in G : \/ ToInt32(items[j].max_zoom) < ToInt32(items[i].max_zoom)
                                 \/ (ToInt32(items[j].max_zoom) = ToInt32(items[i].max_zoom) /\ i <= j)
    IN  items[best]

hasGlobal(items) == \E i \in 1 .. Len(items) : isGlobalItem(items[i])

minZoomOf(items) ==
    CHOOSE m \in { ToInt32(items[i].max_zoom) : i \in 1 .. Len(items) } :
        \A i \in 1 .. Len(items) : m <= ToInt32(items[i].max_zoom)

\* chooseBase(inv, override)
chooseBase(items, override) ==
    LET zmax == maxZoomOf(items, 1) IN
    IF override # Undefined
    THEN [baseZoom |-> ToInt32(override),
          baseDataset |-> IF hasGlobal(items) THEN topGlobal(items).name ELSE NoName,
          zmax |-> zmax]
    ELSE IF hasGlobal(items)
    THEN [baseZoom |-> ToInt32(topGlobal(items).max_zoom),
          baseDataset |-> topGlobal(items).name, zmax |-> zmax]
    ELSE IF Len(items) > 0
    THEN [baseZoom |-> minZoomOf(items), baseDataset |-> NoName, zmax |-> zmax]
    ELSE [baseZoom |-> 0, baseDataset |-> NoName, zmax |-> 0]

\* Array.from(keys).sort((a,b) => a - b)
RECURSIVE sortedKeys(_)
sortedKeys(S) ==
    IF S = {} THEN << >>
    ELSE LET m == CHOOSE v \in S : \A w \in S : v <= w
         IN  << m >> \o sortedKeys(S \ {m})

\* Mutant of encodeRuns: the gap is taken from the previous end column, not
\* from the column after it.
RECURSIVE encodeRunsFromEnd(_, _, _)
encodeRunsFromEnd(rs, k, prevEndPlus1) ==
    IF k > Len(rs) THEN << >>
    ELSE LET r == rs[k]
         IN  << r.x0 - prevEndPlus1, r.x1 - r.x0 + 1, r.ds >>
             \o encodeRunsFromEnd(rs, k + 1, r.x1)

\* One row's tokens after [yToken, nRanges]: dx0, len, ds per run.
RECURSIVE encodeRuns(_, _, _)
encodeRuns(rs, k, prevEndPlus1) ==
    IF k > Len(rs) THEN << >>
    ELSE LET r == rs[k]
         IN  << r.x0 - prevEndPlus1, r.x1 - r.x0 + 1, r.ds >>
             \o encodeRuns(rs, k + 1, r.x1 + 1)

\* Mutant of encodeRows: a row whose interval list is empty is written too.
RECURSIVE encodeRowsKeepEmpty(_, _, _, _)
encodeRowsKeepEmpty(rows, yKeys, k, prevY) ==
    IF k > Len(yKeys) THEN << >>
    ELSE LET y  == yKeys[k]
             rs == rows[y]
         IN  << << (IF prevY < 0 THEN y ELSE y - prevY), Len(rs) >>
                    \o encodeRuns(rs, 1, 0) >>
             \o encodeRowsKeepEmpty(rows, yKeys, k + 1, y)

\* The rows of one level: the loop over yKeys of encodeTamJson.
RECURSIVE encodeRows(_, _, _, _)
encodeRows(rows, yKeys, k, prevY) ==
    IF k > Len(yKeys) THEN << >>
    ELSE LET y  == yKeys[k]
             rs == rows[y]
         IN  IF Len(rs) = 0 THEN encodeRows(rows, yKeys, k + 1, prevY)
             ELSE << << (IF prevY < 0 THEN y ELSE y - prevY), Len(rs) >>
                        \o encodeRuns(rs, 1, 0) >>
                  \o encodeRows(rows, yKeys, k + 1, y)

\* One level of the output: { z, rows }.
encodeLevel(pzr, z) ==
    IF z \notin DOMAIN pzr \/ DOMAIN pzr[z] = {}
    THEN [z |-> z, rows |-> << >>]
    ELSE [z |-> z, rows |-> encodeRows(pzr[z], sortedKeys(DOMAIN pzr[z]), 1, -1)]

\* Mutant of encodeLevels: a zoom without rows gets no level entry.
RECURSIVE encodeLevelsNonEmpty(_, _, _)
encodeLevelsNonEmpty(pzr, z, zmax) ==
    IF z > zmax THEN << >>
    ELSE (IF Len(encodeLevel(pzr, z).rows) = 0 THEN << >> ELSE << encodeLevel(pzr, z) >>)
         \o encodeLevelsNonEmpty(pzr, z + 1, zmax)

\* for (let z = baseZoom + 1; z <= zmax; z++) levels.push(...)
RECURSIVE encodeLevels(_, _, _)
encodeLevels(pzr, z, zmax) ==
    IF z > zmax THEN << >>
    ELSE << encodeLevel(pzr, z) >> \o encodeLevels(pzr, z + 1, zmax)

FormatTag == "tam-json-v1"

-----------------------------------------------------------------------------
(* Decoder *)

\* Uint32Array and x >>> 0 wrap modulo 2^32.  The model checker's integers are
\* 32-bit signed, so the wrap is modelled modulo 2^30: a negative value still
\* becomes a huge positive one, U32 - 1 standing for 2^32 - 1.
U32 == 1073741824
\* Uint16Array wraps modulo 2^16.
U16 == 65536

\* arr[idx] | 0, idx counted from 0: a token past the end reads as undefined, 0.
tokenAt(arr, idx) == IF idx + 1 <= Len(arr) THEN arr[idx + 1] ELSE 0

\* new Uint32Array(0), ... : a level without rows.
emptyLevel(z) ==
    [z |-> z, rowY |-> << >>, rowStart |-> << >>, rowEnd |-> << >>,
     x0 |-> << >>, x1 |-> << >>, ds |-> << >>]

\* The k loop over one row's declared ranges, appending to the flat arrays.
RECURSIVE decodeRanges(_, _, _, _, _, _)
decodeRanges(arr, k, nRanges, idx, prevEndPlus1, L) ==
    IF k >= nRanges THEN L
    ELSE LET dx0   == tokenAt(arr, idx)
             len   == tokenAt(arr, idx + 1)
             d     == tokenAt(arr, idx + 2)
             start == (prevEndPlus1 + dx0) % U32
             end   == (start + len - 1) % U32
         IN  decodeRanges(arr, k + 1, nRanges, idx + 3, end + 1,
                          [L EXCEPT !.x0 = Append(@, start),
                                    !.x1 = Append(@, end),
                                    !.ds = Append(@, d % U16)])

\* The i loop over the rows of one level.
RECURSIVE decodeRows(_, _, _, _)
decodeRows(rowsArr, i, prevY, L) ==
    IF i > Len(rowsArr) THEN L
    ELSE LET arr     == rowsArr[i]
             yTok    == tokenAt(arr, 0)
             nRanges == tokenAt(arr, 1)
             y       == IF prevY < 0 THEN yTok ELSE prevY + yTok
             L1      == [L EXCEPT !.rowY = Append(@, y % U32),
                                  !.rowStart = Append(@, Len(L.x0))]
             L2      == decodeRanges(arr, 0, nRanges, 2, 0, L1)
         IN  decodeRows(rowsArr, i + 1, y, [L2 EXCEPT !.rowEnd = Append(@, Len(L2.x0))])

\* Mutant of levelOf: the first entry of obj.levels is taken whatever its z.
levelOfFirst(levels, z) == levels[1]

\* byZ.get(z): the last entry of obj.levels with that z, if any.
hasLevel(levels, z) == \E i \in 1 .. Len(levels) : levels[i].z = z
levelOf(levels, z) ==
    levels[CHOOSE i \in 1 .. Len(levels) :
              levels[i].z = z /\ \A j \in 1 .. Len(levels) : levels[j].z = z => j <= i]

\* One slot of the level table built by TAM.fromObject.
decodeLevel(levels, z) ==
    IF ~hasLevel(levels, z) \/ Len(levelOf(levels, z).rows) = 0
    THEN emptyLevel(z)
    ELSE decodeRows(levelOf(levels, z).rows, 1, -1, emptyLevel(z))

RECURSIVE decodeLevels(_, _, _)
decodeLevels(levels, z, zmax) ==
    IF z > zmax THEN << >>
    ELSE << decodeLevel(levels, z) >> \o decodeLevels(levels, z + 1, zmax)

\* JSON null handed to the decoder.
NullObj == [null |-> TRUE]

\* Mutant of fromObject: obj.levels is walked before the format is checked.
fromObjectLevelsFirst(o) ==
    IF o # NullObj /\ "levels" \notin DOMAIN o
    THEN [state |-> "error", error |-> "TypeError"]
    ELSE IF o = NullObj \/ o.format # FormatTag
    THEN [state |-> "error", error |-> "Invalid TAM JSON: bad format"]
    ELSE [state |-> "built", zbase |-> o.zbase, zmax |-> o.zmax,
          datasets |-> o.datasets, baseDataset |-> o.base_dataset,
          levels |-> decodeLevels(o.levels, o.zbase + 1, o.zmax)]

\* TAM.fromObject(obj): the TAM built, or the error thrown.
fromObject(o) ==
    IF o = NullObj \/ o.format # FormatTag
    THEN [state |-> "error", error |-> "Invalid TAM JSON: bad format"]
    ELSE IF "levels" \notin DOMAIN o
    THEN [state |-> "error", error |-> "TypeError"]
    ELSE [state |-> "built", zbase |-> o.zbase, zmax |-> o.zmax,
          datasets |-> o.datasets, baseDataset |-> o.base_dataset,
          levels |-> decodeLevels(o.levels, o.zbase + 1, o.zmax)]

\* The row scan of datasetForTile: for (i = s; i < e; i++) ...
RECURSIVE scanRow(_, _, _, _)
scanRow(L, i, e, x) ==
    IF i >= e THEN -1
    ELSE IF L.x0[i + 1] <= x /\ x <= L.x1[i + 1] THEN L.ds[i + 1]
    ELSE scanRow(L, i + 1, e, x)

\* Mutant of searchRow: only the middle row of L.rowY is looked at.
searchRowMiddleOnly(L, lo, hi, x, y) ==
    IF lo > hi THEN -1
    ELSE LET mid == (lo + hi) \div 2
         IN  IF L.rowY[mid + 1] = y
             THEN scanRow(L, L.rowStart[mid + 1], L.rowEnd[mid + 1], x)
             ELSE -1

\* The binary search of datasetForTile over L.rowY.
RECURSIVE searchRow(_, _, _, _, _)
searchRow(L, lo, hi, x, y) ==
    IF lo > hi THEN -1
    ELSE LET mid == (lo + hi) \div 2
             yy  == L.rowY[mid + 1]
         IN  IF yy = y THEN scanRow(L, L.rowStart[mid + 1], L.rowEnd[mid + 1], x)
             ELSE IF yy < y THEN searchRow(L, mid + 1, hi, x, y)
             ELSE searchRow(L, lo, mid - 1, x, y)

\* TAM.datasetForTile(z, x, y)
datasetForTile(t, z, x, y) ==
    LET slot == z - t.zbase - 1 IN
    IF slot < 0 \/ slot >= Len(t.levels) THEN -1
    ELSE searchRow(t.levels[slot + 1], 0, Len(t.levels[slot + 1].rowY) - 1, x, y)

\* The column datasetHere probes at zoom z: floor(((lon + 180) / 360) * n) & (n - 1).
queryColumn(lon, z) == (((lon + 180) * Pow2(z)) \div LonSpan) % Pow2(z)

\* The row datasetHere probes at zoom z: clamp(floor(y * n), 0, n - 1), with no
\* clamp of the latitude itself.
queryRow(lat, z) == clamp(JFloor(MercY(lat)[1] * Pow2(z), YScale), 0, Pow2(z) - 1)

\* Mutant of probeFrom: the first level probed that hits ends the search, but
\* the levels are probed from zbase + 1 upwards.
RECURSIVE probeUp(_, _, _, _)
probeUp(t, z, lat, lon) ==
    IF z > t.zmax THEN [hit |-> FALSE]
    ELSE LET ds == datasetForTile(t, z, queryColumn(lon, z), queryRow(lat, z))
         IN  IF ds >= 0 THEN [hit |-> TRUE, zoom |-> z, ds |-> ds]
             ELSE probeUp(t, z + 1, lat, lon)
probeFromAscending(t, z, lat, lon) == probeUp(t, t.zbase + 1, lat, lon)

\* The descending level loop of datasetHere: the first hit, if any.
RECURSIVE probeFrom(_, _, _, _)
probeFrom(t, z, lat, lon) ==
    IF z < t.zbase + 1 THEN [hit |-> FALSE]
    ELSE LET ds == datasetForTile(t, z, queryColumn(lon, z), queryRow(lat, z))
         IN  IF ds >= 0 THEN [hit |-> TRUE, zoom |-> z, ds |-> ds]
             ELSE probeFrom(t, z - 1, lat, lon)

\* this.datasets[i], null standing for no dataset (and undefined past the end).
datasetAt(t, i) ==
    IF i >= 0 /\ i < Len(t.datasets) THEN t.datasets[i + 1] ELSE "undefined"

\* Mutant of datasetHere: the fallback ignores the base dataset.
datasetHereNoBase(t, lat, lon) ==
    LET p == probeFrom(t, t.zmax, lat, lon) IN
    IF p.hit
    THEN [zoom |-> p.zoom, datasetIndex |-> p.ds, dataset |-> datasetAt(t, p.ds)]
    ELSE [zoom |-> t.zbase, datasetIndex |-> -1, dataset |-> "null"]

\* TAM.datasetHere(lat, lon)
datasetHere(t, lat, lon) ==
    LET p == probeFrom(t, t.zmax, lat, lon) IN
    IF p.hit
    THEN [zoom |-> p.zoom, datasetIndex |-> p.ds, dataset |-> datasetAt(t, p.ds)]
    ELSE LET base == IF t.baseDataset >= 0 THEN t.baseDataset ELSE -1
         IN  [zoom |-> t.zbase, datasetIndex |-> base,
              dataset |-> IF base >= 0 THEN datasetAt(t, base) ELSE "null"]

\* TAM.maxZoomAt(lat, lon)
maxZoomAt(t, lat, lon) == datasetHere(t, lat, lon).zoom

\* TAM.hasTile(z, x, y)
hasTile(t, z, x, y) == datasetForTile(t, z, x, y) >= 0

-----------------------------------------------------------------------------
(* Bounds and input sets *)

\* Longest inventory.
MaxItems == 2
\* Highest max_zoom of an inventory item.
MaxZoom == 2

Item(nm, lon0, lon1, lat0, lat1, mz) ==
    [name |-> nm, min_lon |-> lon0, max_lon |-> lon1,
     min_lat |-> lat0, max_lat |-> lat1, max_zoom |-> mz]

\* Well-formed rectangles.
GoodItems ==
    { Item("planet", -180, 180, -900000, 900000, 0),
      Item("a", -90, 45, 0, 600000, MaxZoom),
      Item("b", -90, 45, 0, 600000, MaxZoom),
      Item("a", 0, 45, 0, 300000, MaxZoom),
      Item("b", 0, 90, -300000, 300000, MaxZoom),
      Item("b", 0, 90, -300000, 300000, 1),
      Item("b", 170, -170, -300000, 300000, MaxZoom),
      Item("b", -180, 180, -900000, 900000, 1) }

\* Items with a missing (or NaN) bound or max_zoom.
BadItems ==
    { Item("m", NaN, 0, -300000, 300000, MaxZoom),
      Item("m", 0, NaN, -300000, 300000, MaxZoom),
      Item("m", 0, 90, NaN, 300000, MaxZoom),
      Item("m", 0, 90, -300000, 300000, NaN) }

ItemPool == GoodItems \cup BadItems

Inventories == UNION { [1 .. len -> ItemPool] : len \in 0 .. MaxItems }

\* << opts.baseZoom, opts.zmax >>
Options ==
    { << Undefined, Undefined >>, << 0, Undefined >>, << 1, Undefined >>,
      << Undefined, 1 >>, << Undefined, MaxZoom + 1 >> }

\* Query points: latitudes in 1e-4 degree, longitudes in degrees.
QueryLats == { 900000, 600000, 300000, 0, -300000, -900000, 1350000 }
QueryLons == { -180, -45, 20, 60, 175 }
\* Queried tiles << z, x, y >>: every tile of the zooms 1 .. MaxZoom, and the
\* corner tile of the zooms on either side.
QueryTiles ==
    { << z, x, y >> : z \in 1 .. MaxZoom, x \in 0 .. Pow2(MaxZoom) - 1,
                      y \in 0 .. Pow2(MaxZoom) - 1 }
    \cup { << 0, 0, 0 >>, << MaxZoom + 1, 0, 0 >> }

NoTam == [state |-> "unbuilt"]
NoRes == [op |-> "none"]
NoCall == [op |-> "none"]
NoOut == [format |-> "none"]

-----------------------------------------------------------------------------
(* Encode -> decode -> query *)

Init ==
    /\ inv \in Inventories
    /\ \E o \in Options : optBaseZoom = o[1] /\ optZmax = o[2]
    /\ pc = "start"
    /\ cursor = 1
    /\ enc = [baseZoom |-> 0, zmax |-> 0, baseDatasetId |-> -1]
    /\ datasets = << >>
    /\ perZoomRows = << >>
    /\ obj = NullObj
    /\ tam = NoTam
    /\ res = NoRes
    /\ runs = << >>
    /\ lastCall = NoCall
    /\ firstOut = NoOut

\* Mutant of Begin: the per-zoom rows live outside the call and are not
\* created afresh.
BeginLeftover ==
    /\ pc = "start"
    /\ LET cb   == chooseBase(inv, optBaseZoom)
           zmax == IF optZmax # Undefined
                   THEN (IF optZmax <= cb.zmax THEN optZmax ELSE cb.zmax)
                   ELSE cb.zmax
           tbl  == IF cb.baseDataset # NoName THEN ensureDs(<< >>, cb.baseDataset) ELSE << >>
       IN  /\ datasets' = tbl
           /\ enc' = [baseZoom |-> cb.baseZoom, zmax |-> zmax,
                      baseDatasetId |-> IF cb.baseDataset # NoName
                                        THEN dsIndexOf(tbl, cb.baseDataset) ELSE -1]
    /\ cursor' = 1
    /\ pc' = "items"
    /\ UNCHANGED << inv, optBaseZoom, optZmax, perZoomRows, obj, tam, res,
                    runs, lastCall, firstOut >>

\* Mutant of Begin: opts.zmax is ignored.
BeginNoCap ==
    /\ pc = "start"
    /\ LET cb   == chooseBase(inv, optBaseZoom)
           tbl  == IF cb.baseDataset # NoName THEN ensureDs(<< >>, cb.baseDataset) ELSE << >>
       IN  /\ datasets' = tbl
           /\ enc' = [baseZoom |-> cb.baseZoom, zmax |-> cb.zmax,
                      baseDatasetId |-> IF cb.baseDataset # NoName
                                        THEN dsIndexOf(tbl, cb.baseDataset) ELSE -1]
    /\ perZoomRows' = << >>
    /\ cursor' = 1
    /\ pc' = "items"
    /\ UNCHANGED << inv, optBaseZoom, optZmax, obj, tam, res, runs, lastCall, firstOut >>

\* encodeTamJson up to the item loop: chooseBase, the zmax cap, the base
\* dataset, and the fresh locals (dataset table, perZoomRows, loop position).
Begin ==
    /\ pc = "start"
    /\ LET cb   == chooseBase(inv, optBaseZoom)
           zmax == IF optZmax # Undefined
                   THEN (IF optZmax <= cb.zmax THEN optZmax ELSE cb.zmax)
                   ELSE cb.zmax
           tbl  == IF cb.baseDataset # NoName THEN ensureDs(<< >>, cb.baseDataset) ELSE << >>
       IN  /\ datasets' = tbl
           /\ enc' = [baseZoom |-> cb.baseZoom, zmax |-> zmax,
                      baseDatasetId |-> IF cb.baseDataset # NoName
                                        THEN dsIndexOf(tbl, cb.baseDataset) ELSE -1]
    /\ perZoomRows' = << >>
    /\ cursor' = 1
    /\ pc' = "items"
    /\ UNCHANGED << inv, optBaseZoom, optZmax, obj, tam, res, runs, lastCall, firstOut >>

\* One iteration of the item loop of encodeTamJson.
InsertItem ==
    /\ pc = "items"
    /\ cursor <= Len(inv)
    /\ LET it == inv[cursor] IN
       IF ToInt32(it.max_zoom) <= enc.baseZoom
       THEN UNCHANGED << datasets, perZoomRows >>
       ELSE LET name == IF it.name # NoName THEN it.name ELSE DefaultName(Len(datasets))
                tbl  == ensureDs(datasets, name)
            IN  /\ datasets' = tbl
                /\ perZoomRows' = insertRectCoverage(perZoomRows, it, dsIndexOf(tbl, name),
                                                     enc.baseZoom, enc.zmax)
    /\ cursor' = cursor + 1
    /\ UNCHANGED << inv, optBaseZoom, optZmax, pc, enc, obj, tam, res, runs, lastCall, firstOut >>

\* The level loop and the return of encodeTamJson.
BuildLevels ==
    /\ pc = "items"
    /\ cursor > Len(inv)
    /\ obj' = [format |-> FormatTag, zbase |-> enc.baseZoom, zmax |-> enc.zmax,
               datasets |-> datasets, base_dataset |-> enc.baseDatasetId,
               levels |-> encodeLevels(perZoomRows, enc.baseZoom + 1, enc.zmax)]
    /\ pc' = "encoded"
    /\ UNCHANGED << inv, optBaseZoom, optZmax, cursor, enc, datasets, perZoomRows,
                    tam, res, runs, lastCall, firstOut >>

\* TAM.fromObject(obj)
FromObject ==
    /\ pc = "encoded"
    /\ tam' = fromObject(obj)
    /\ pc' = IF fromObject(obj).state = "built" THEN "decoded" ELSE "failed"
    /\ UNCHANGED << inv, optBaseZoom, optZmax, cursor, enc, datasets, perZoomRows,
                    obj, res, runs, lastCall, firstOut >>

\* Mutant of QueryFrame: a query consumes the level table it searched.
QueryFrameConsuming ==
    /\ pc' = "answered"
    /\ tam' = [tam EXCEPT !.levels = [k \in 1 .. Len(tam.levels) |-> emptyLevel(tam.levels[k].z)]]
    /\ UNCHANGED << inv, optBaseZoom, optZmax, cursor, enc, datasets, perZoomRows,
                    obj, runs, lastCall, firstOut >>

\* A query reads the decoded TAM and hands its result to the caller.
QueryFrame ==
    /\ pc' = "answered"
    /\ UNCHANGED << inv, optBaseZoom, optZmax, cursor, enc, datasets, perZoomRows,
                    obj, tam, runs, lastCall, firstOut >>

DatasetForTile ==
    /\ pc = "decoded"
    /\ \E q \in QueryTiles :
          /\ q[2] < Pow2(q[1]) /\ q[3] < Pow2(q[1])
          /\ res' = [op |-> "datasetForTile", z |-> q[1], x |-> q[2], y |-> q[3],
                     out |-> datasetForTile(tam, q[1], q[2], q[3])]
    /\ QueryFrame

HasTile ==
    /\ pc = "decoded"
    /\ \E q \in QueryTiles :
          /\ q[2] < Pow2(q[1]) /\ q[3] < Pow2(q[1])
          /\ res' = [op |-> "hasTile", z |-> q[1], x |-> q[2], y |-> q[3],
                     out |-> hasTile(tam, q[1], q[2], q[3])]
    /\ QueryFrame

DatasetHere ==
    /\ pc = "decoded"
    /\ \E lat \in QueryLats, lon \in QueryLons :
          res' = [op |-> "datasetHere", lat |-> lat, lon |-> lon,
                  out |-> datasetHere(tam, lat, lon)]
    /\ QueryFrame

MaxZoomAt ==
    /\ pc = "decoded"
    /\ \E lat \in QueryLats, lon \in QueryLons :
          res' = [op |-> "maxZoomAt", lat |-> lat, lon |-> lon,
                  out |-> maxZoomAt(tam, lat, lon)]
    /\ QueryFrame

\* The caller drops the result; the TAM can be queried again.
Return ==
    /\ pc = "answered"
    /\ pc' = "decoded"
    /\ res' = NoRes
    /\ UNCHANGED << inv, optBaseZoom, optZmax, cursor, enc, datasets, perZoomRows,
                    obj, tam, runs, lastCall, firstOut >>

Next ==
    \/ Begin
    \/ InsertItem
    \/ BuildLevels
    \/ FromObject
    \/ DatasetForTile
    \/ HasTile
    \/ DatasetHere
    \/ MaxZoomAt
    \/ Return

Spec == Init /\ [][Next]_vars

-----------------------------------------------------------------------------
(* encodeTamJson called twice on the same inventory and options *)

\* The caller keeps the first output and calls encodeTamJson again; whatever
\* the first call left behind is still there when the second starts.
Rerun ==
    /\ pc = "encoded"
    /\ firstOut = NoOut
    /\ firstOut' = obj
    /\ pc' = "start"
    /\ UNCHANGED << inv, optBaseZoom, optZmax, cursor, enc, datasets, perZoomRows,
                    obj, tam, res, runs, lastCall >>

NextTwice ==
    \/ Begin
    \/ InsertItem
    \/ BuildLevels
    \/ Rerun

SpecTwice == Init /\ [][NextTwice]_vars

-----------------------------------------------------------------------------
(* The overlay engine on one row: any sequence of overlayRange calls *)

\* Columns of the row: 0 .. RowWidth - 1.
RowWidth == 4
\* Dataset ids used by the calls.
DsIds == { 0, 1 }
\* Window bounds handed to overlayRange: columns, or NaN (insertRectCoverage
\* lets a NaN bound through its range test).
CallBounds == (0 .. RowWidth - 1) \cup { NaN }

InitOverlay ==
    /\ inv = << >>
    /\ optBaseZoom = Undefined
    /\ optZmax = Undefined
    /\ pc = "overlay"
    /\ cursor = 1
    /\ enc = [baseZoom |-> 0, zmax |-> 0, baseDatasetId |-> -1]
    /\ datasets = << >>
    /\ perZoomRows = << >>
    /\ obj = NullObj
    /\ tam = NoTam
    /\ res = NoRes
    /\ runs = << >>
    /\ lastCall = NoCall
    /\ firstOut = NoOut

\* runArr = overlayRange(runArr, x0, x1, ds)
OverlayCall ==
    /\ pc = "overlay"
    /\ \E x0 \in CallBounds, x1 \in CallBounds, ds \in DsIds :
          /\ runs' = overlayRange(runs, x0, x1, ds)
          /\ lastCall' = [op |-> "overlayRange", x0 |-> x0, x1 |-> x1, ds |-> ds,
                          before |-> runs,
                          input |-> inputAfterOverlay(runs, x0, x1, ds)]
    /\ UNCHANGED << inv, optBaseZoom, optZmax, pc, cursor, enc, datasets, perZoomRows,
                    obj, tam, res, firstOut >>

NextOverlay == OverlayCall

SpecOverlay == InitOverlay /\ [][NextOverlay]_vars

-----------------------------------------------------------------------------
(* The level builder and the row decoder on arbitrary row maps *)

\* sorted by x0, disjoint, x0 <= x1, and touching neighbours differ in dataset
RowInvariant(rs) ==
    /\ \A k \in 1 .. Len(rs) : rs[k].x0 # NaN /\ rs[k].x1 # NaN /\ rs[k].x0 <= rs[k].x1
    /\ \A k \in 1 .. Len(rs) - 1 :
          /\ rs[k].x0 < rs[k + 1].x0
          /\ rs[k].x1 < rs[k + 1].x0
          /\ (rs[k + 1].x0 = rs[k].x1 + 1 => rs[k].ds # rs[k + 1].ds)

RangeSet ==
    { Range(a, b, d) : a \in 0 .. RowWidth - 1, b \in 0 .. RowWidth - 1, d \in DsIds }

\* The interval lists of at most k intervals with the row invariant.
RECURSIVE RunListsUpTo(_)
RunListsUpTo(k) ==
    IF k = 0 THEN { << >> }
    ELSE LET S == RunListsUpTo(k - 1)
         IN  S \cup { ext \in { Append(rs, r) : rs \in S, r \in RangeSet } : RowInvariant(ext) }

\* Every interval list over the columns 0 .. RowWidth - 1 with the row invariant.
RunLists == RunListsUpTo(RowWidth)

\* Row indices of the generated maps (zoom 3: rows 0 .. 7).
RowIds == { 0, 3, 7 }

\* Row maps y -> runs holding at most two rows.
RowMaps ==
    { << >> }
    \cup { [y \in { a } |-> rs] : a \in RowIds, rs \in RunLists }
    \cup { [y \in { a, b } |-> IF y = a THEN ra ELSE rb] :
             a \in RowIds, b \in RowIds \ { 0 }, ra \in RunLists,
             rb \in { rs \in RunLists : Len(rs) = 1 } }

InitRoundTrip ==
    /\ inv = << >>
    /\ optBaseZoom = Undefined
    /\ optZmax = Undefined
    /\ pc = "items"
    /\ cursor = 1
    /\ enc = [baseZoom |-> 1, zmax |-> 3, baseDatasetId |-> -1]
    /\ datasets = << "a", "b" >>
    /\ \E top \in RowMaps, low \in { << >>, [y \in { 1 } |-> << Range(0, 3, 1) >>] } :
          perZoomRows \in { [z \in { 3 } |-> top], [z \in { 2, 3 } |-> IF z = 2 THEN low ELSE top] }
    /\ obj = NullObj
    /\ tam = NoTam
    /\ res = NoRes
    /\ runs = << >>
    /\ lastCall = NoCall
    /\ firstOut = NoOut

NextRoundTrip ==
    \/ BuildLevels
    \/ FromObject

SpecRoundTrip == InitRoundTrip /\ [][NextRoundTrip]_vars

-----------------------------------------------------------------------------
(* The decoder on objects received from outside (file, network) *)

\* Row arrays [yToken, nRanges, (dx0, len, ds) ...]: well formed, and with a
\* declared count above or below the triples present.
GoodRowArrays == { << 0, 1, 0, 2, 0 >>, << 1, 2, 0, 1, 0, 1, 2, 1 >>, << 2, 1, 1, 1, 1 >> }
BadRowArrays == { << 0, 1 >>, << 1, 2, 0, 1, 0 >>, << 0, 1, 0, 1, 0, 1, 1, 1 >> }
RowArrays == GoodRowArrays \cup BadRowArrays

\* The rows of one level: at most two row arrays.
LevelRows == UNION { [1 .. k -> RowArrays] : k \in 0 .. 2 }

\* obj.levels: one level, the zooms 1 and 2 in either order, one zoom twice,
\* or the zooms 1, 2 and 3 in any order.
LevelLists ==
    { << >> }
    \cup { << [z |-> z, rows |-> rs] >> : z \in 1 .. 3, rs \in LevelRows }
    \cup { << [z |-> za, rows |-> ra], [z |-> 3 - za, rows |-> rb] >> :
             za \in 1 .. 2, ra \in { << >> } \cup { << a >> : a \in RowArrays },
             rb \in { << >> } \cup { << a >> : a \in GoodRowArrays } }
    \cup { << [z |-> za, rows |-> << a >>], [z |-> za, rows |-> << b >>] >> :
             za \in 1 .. 2, a \in GoodRowArrays, b \in GoodRowArrays }
    \cup { [k \in 1 .. 3 |-> [z |-> p[k], rows |-> << a >>]] :
             a \in GoodRowArrays,
             p \in { q \in [1 .. 3 -> 1 .. 3] : \A i, j \in 1 .. 3 : q[i] = q[j] => i = j } }

\* obj.format: the tag, a sibling format's tag, or no format field at all.
Formats == { FormatTag, "zmj-json-v1", "undefined" }

DecodeObjects ==
    { NullObj }
    \cup { [format |-> f, zbase |-> 0, zmax |-> zm, datasets |-> << "a", "b" >>,
            base_dataset |-> b, levels |-> ls] :
             f \in Formats, zm \in 1 .. 2, b \in { -1, 0 }, ls \in LevelLists }
    \cup { [format |-> f, zbase |-> 0, zmax |-> 2, datasets |-> << "a", "b" >>,
            base_dataset |-> -1] : f \in Formats }

InitDecode ==
    /\ inv = << >>
    /\ optBaseZoom = Undefined
    /\ optZmax = Undefined
    /\ pc = "encoded"
    /\ cursor = 1
    /\ enc = [baseZoom |-> 0, zmax |-> 0, baseDatasetId |-> -1]
    /\ datasets = << >>
    /\ perZoomRows = << >>
    /\ obj \in DecodeObjects
    /\ tam = NoTam
    /\ res = NoRes
    /\ runs = << >>
    /\ lastCall = NoCall
    /\ firstOut = NoOut

NextDecode ==
    \/ FromObject
    \/ DatasetForTile
    \/ HasTile
    \/ DatasetHere
    \/ MaxZoomAt
    \/ Return

SpecDecode == InitDecode /\ [][NextDecode]_vars

-----------------------------------------------------------------------------
(* ZMJ (Zoom-Max JSON): the packer (zmj-pack, src/unnamed/part_000) and the *)
(* decoder (zmj-decoder, src/unnamed/part_003)                              *)

ZmjTag == "zmj-json-v1"

\* round3 on a latitude held in units of 1e-4 degree: Math.round(n * 1000) / 1000
\* rounds to the nearest 1e-3 degree, halves upwards.
round3Lat(v) == IF v = NaN THEN NaN ELSE 10 * ((v + 5) \div 10)

\* round3 on a longitude held in whole degrees.
round3Lon(v) == v

\* Math.min(a, b) and Math.max(a, b); NaN when either is.
JMin(a, b) == IF a = NaN \/ b = NaN THEN NaN ELSE IF a <= b THEN a ELSE b

\* chooseBase of zmj-pack: { baseZoom, baseDataset }.
zmjChooseBase(items, override) ==
    IF override # Undefined
    THEN [baseZoom |-> ToInt32(override),
          baseDataset |-> IF hasGlobal(items) THEN topGlobal(items).name ELSE NoName]
    ELSE IF hasGlobal(items)
    THEN [baseZoom |-> ToInt32(topGlobal(items).max_zoom),
          baseDataset |-> topGlobal(items).name]
    ELSE IF Len(items) > 0
    THEN [baseZoom |-> minZoomOf(items), baseDataset |-> NoName]
    ELSE [baseZoom |-> 0, baseDataset |-> NoName]

\* The rects pushed by the item loop of buildZMJFromInventory, from item k on.
RECURSIVE zmjRects(_, _, _)
zmjRects(items, k, baseZoom) ==
    IF k > Len(items) THEN << >>
    ELSE LET it == items[k]
             z  == ToInt32(it.max_zoom)
         IN  (IF z <= baseZoom THEN << >>
              ELSE << [z |-> z,
                       dataset |-> IF it.name # NoName THEN it.name ELSE "dataset",
                       min_lat |-> round3Lat(JMin(it.min_lat, it.max_lat)),
                       min_lon |-> round3Lon(it.min_lon),
                       max_lat |-> round3Lat(JMax(it.min_lat, it.max_lat)),
                       max_lon |-> round3Lon(it.max_lon)] >>)
             \o zmjRects(items, k + 1, baseZoom)

\* rects.sort((a, b) => b.z - a.z): descending z, equal z in their order.
RECURSIVE sortByZDesc(_, _)
sortByZDesc(rects, z) ==
    IF z < 0 THEN << >>
    ELSE LET AtZ(r) == r.z = z
         IN  SelectSeq(rects, AtZ) \o sortByZDesc(rects, z - 1)

\* buildZMJFromInventory(inv, baseZoom, baseDataset): the object returned has
\* the fields base_zoom, base_dataset and rects.
buildZMJFromInventory(items, baseZoom, baseDataset) ==
    [base_zoom |-> baseZoom,
     base_dataset |-> IF baseDataset # NoName THEN baseDataset ELSE "null",
     rects |-> sortByZDesc(zmjRects(items, 1, baseZoom), MaxZoom + 1)]

\* The rects of ZMJ.fromObject: latitudes put in order, z | 0.
zmjNormalize(rects) ==
    [k \in 1 .. Len(rects) |->
        [z |-> ToInt32(rects[k].z), dataset |-> rects[k].dataset,
         min_lat |-> JMin(rects[k].min_lat, rects[k].max_lat),
         max_lat |-> JMax(rects[k].min_lat, rects[k].max_lat),
         min_lon |-> rects[k].min_lon, max_lon |-> rects[k].max_lon]]

\* ZMJ.fromObject(obj): the ZMJ built, or the error thrown.  A field the object
\* lacks reads as undefined.
zmjFromObject(o) ==
    IF o = NullObj \/ "format" \notin DOMAIN o \/ o.format # ZmjTag \/ "rects" \notin DOMAIN o
    THEN [state |-> "error", error |-> "Invalid ZMJ JSON"]
    ELSE [state |-> "built", baseZoom |-> ToInt32(o.base_zoom),
          baseDataset |-> o.base_dataset,
          rects |-> sortByZDesc(zmjNormalize(o.rects), MaxZoom + 1)]

\* main of zmj-pack: chooseBase, then buildZMJFromInventory.
ZmjPack ==
    /\ pc = "start"
    /\ LET cb == zmjChooseBase(inv, optBaseZoom)
       IN  obj' = buildZMJFromInventory(inv, cb.baseZoom, cb.baseDataset)
    /\ pc' = "zmj-packed"
    /\ UNCHANGED << inv, optBaseZoom, optZmax, cursor, enc, datasets, perZoomRows,
                    tam, res, runs, lastCall, firstOut >>

\* ZMJ.fromObject on the packed object.
ZmjFromObject ==
    /\ pc = "zmj-packed"
    /\ tam' = zmjFromObject(obj)
    /\ pc' = IF zmjFromObject(obj).state = "built" THEN "zmj-decoded" ELSE "zmj-failed"
    /\ UNCHANGED << inv, optBaseZoom, optZmax, cursor, enc, datasets, perZoomRows,
                    obj, res, runs, lastCall, firstOut >>

NextZmj ==
    \/ ZmjPack
    \/ ZmjFromObject

SpecZmj == Init /\ [][NextZmj]_vars

-----------------------------------------------------------------------------
(* ZMCF v1 (binary coverage file): the Node packer and reference query      *)
(* (zmc-pack, src/unnamed/part_003) and the browser decoder (class ZMCF,    *)
(* src/tam-json/tam-cli.ts).  A file is held as its header fields and its   *)
(* level directory, each entry with the chunk its offset points at; a chunk *)
(* is the uvarint count and the ZigZag values of the signed varints.        *)
(* Coordinates here are whole degrees.                                      *)

MAGIC == "ZMC1"
VERSION == 1
COORD_ENCODING_WGS84_MICRODEG == 0
MicroPerDegree == 1000000

\* quantizeMicrodeg(v): Math.round(v * 1_000_000), v in whole degrees.
quantizeMicrodeg(v) == v * MicroPerDegree

\* zigzagEncode32 and zigzagDecode32 (values stay far below 2^31 here).
zigzagEncode32(n) == IF n >= 0 THEN 2 * n ELSE -2 * n - 1
zigzagDecode32(u) == IF u % 2 = 0 THEN u \div 2 ELSE -((u + 1) \div 2)

ZRect(lat0, lon0, lat1, lon1) ==
    [minLat |-> lat0, minLon |-> lon0, maxLat |-> lat1, maxLon |-> lon1]

\* clamp of zmc-pack: Math.max(lo, Math.min(hi, v))
zmcClamp(v, lo, hi) == IF v > hi THEN (IF lo > hi THEN lo ELSE hi) ELSE IF v < lo THEN lo ELSE v

\* splitAntimeridianIfNeeded(r)
splitAntimeridianIfNeeded(r) ==
    LET minLat == IF r.minLat <= r.maxLat THEN r.minLat ELSE r.maxLat
        maxLat == IF r.minLat <= r.maxLat THEN r.maxLat ELSE r.minLat
        minLon == zmcClamp(r.minLon, -180, 180)
        maxLon == zmcClamp(r.maxLon, -180, 180)
    IN  IF minLon <= maxLon
        THEN << ZRect(minLat, minLon, maxLat, maxLon) >>
        ELSE << ZRect(minLat, minLon, maxLat, 180), ZRect(minLat, -180, maxLat, maxLon) >>

\* The normalised, quantised part pushed to rectsQ.
quantizeRect(q) ==
    [minLatQ |-> quantizeMicrodeg(IF q.minLat <= q.maxLat THEN q.minLat ELSE q.maxLat),
     minLonQ |-> quantizeMicrodeg(IF q.minLon <= q.maxLon THEN q.minLon ELSE q.maxLon),
     maxLatQ |-> quantizeMicrodeg(IF q.minLat <= q.maxLat THEN q.maxLat ELSE q.minLat),
     maxLonQ |-> quantizeMicrodeg(IF q.minLon <= q.maxLon THEN q.maxLon ELSE q.minLon)]

\* The rectsQ of one level before sorting: every part of every rectangle.
RECURSIVE levelRectsQ(_, _)
levelRectsQ(rects, k) ==
    IF k > Len(rects) THEN << >>
    ELSE LET parts == splitAntimeridianIfNeeded(rects[k])
         IN  [i \in 1 .. Len(parts) |-> quantizeRect(parts[i])] \o levelRectsQ(rects, k + 1)

\* compareRectQ(a, b) <= 0
RectQLe(a, b) ==
    IF a.minLatQ # b.minLatQ THEN a.minLatQ < b.minLatQ
    ELSE IF a.minLonQ # b.minLonQ THEN a.minLonQ < b.minLonQ
    ELSE IF a.maxLatQ # b.maxLatQ THEN a.maxLatQ < b.maxLatQ
    ELSE a.maxLonQ <= b.maxLonQ

\* rectsQ.sort(compareRectQ): the least element first, then the rest sorted.
RECURSIVE sortRectsQ(_)
sortRectsQ(rs) ==
    IF Len(rs) <= 1 THEN rs
    ELSE LET m == CHOOSE i \in 1 .. Len(rs) :
                     \A j \in 1 .. Len(rs) : RectQLe(rs[i], rs[j]) /\ (RectQLe(rs[j], rs[i]) => i <= j)
         IN  << rs[m] >> \o sortRectsQ(SubSeq(rs, 1, m - 1) \o SubSeq(rs, m + 1, Len(rs)))

\* The delta-coded chunk of one level: each field against the previous rect's.
encodeChunk(rectsQ) ==
    [count  |-> Len(rectsQ),
     deltas |-> [k \in 1 .. Len(rectsQ) |->
                   LET prev == IF k = 1
                               THEN [minLatQ |-> 0, minLonQ |-> 0, maxLatQ |-> 0, maxLonQ |-> 0]
                               ELSE rectsQ[k - 1]
                   IN  << zigzagEncode32(rectsQ[k].minLatQ - prev.minLatQ),
                          zigzagEncode32(rectsQ[k].minLonQ - prev.minLonQ),
                          zigzagEncode32(rectsQ[k].maxLatQ - prev.maxLatQ),
                          zigzagEncode32(rectsQ[k].maxLonQ - prev.maxLonQ) >>]]

\* The level directory encodeZMCF writes: the zooms of layers above baseZoom
\* in descending order, from zoom z down.
RECURSIVE encodeDir(_, _, _)
encodeDir(layers, baseZoom, z) ==
    IF z <= baseZoom THEN << >>
    ELSE (IF z \in DOMAIN layers
          THEN LET rq == sortRectsQ(levelRectsQ(layers[z], 1))
               IN  << [z |-> z, rectCount |-> Len(rq), chunk |-> encodeChunk(rq)] >>
          ELSE << >>)
         \o encodeDir(layers, baseZoom, z - 1)

\* encodeZMCF(baseZoom, layers)
encodeZMCF(baseZoom, layers) ==
    [magic |-> MAGIC, version |-> VERSION, coordEnc |-> COORD_ENCODING_WGS84_MICRODEG,
     baseZoom |-> baseZoom, dir |-> encodeDir(layers, baseZoom, MaxZoom + 1)]

\* The rectangles of one chunk: cumulative sums of the decoded deltas.
RECURSIVE decodeChunk(_, _, _)
decodeChunk(deltas, k, prev) ==
    IF k > Len(deltas) THEN << >>
    ELSE LET r == [minLatQ |-> prev.minLatQ + zigzagDecode32(deltas[k][1]),
                   minLonQ |-> prev.minLonQ + zigzagDecode32(deltas[k][2]),
                   maxLatQ |-> prev.maxLatQ + zigzagDecode32(deltas[k][3]),
                   maxLonQ |-> prev.maxLonQ + zigzagDecode32(deltas[k][4])]
         IN  << r >> \o decodeChunk(deltas, k + 1, r)

\* The levels both decoders build, in level directory order.
zmcfLevels(f) ==
    [k \in 1 .. Len(f.dir) |->
        [z |-> f.dir[k].z,
         rectsQ |-> decodeChunk(f.dir[k].chunk.deltas, 1,
                                [minLatQ |-> 0, minLonQ |-> 0, maxLatQ |-> 0, maxLonQ |-> 0])]]

\* The checks both decoders make on the header and on each chunk's count.
zmcfReadable(f) ==
    /\ f.magic = MAGIC /\ f.version = VERSION /\ f.coordEnc = COORD_ENCODING_WGS84_MICRODEG
    /\ \A k \in 1 .. Len(f.dir) :
          /\ f.dir[k].chunk.count = f.dir[k].rectCount
          /\ Len(f.dir[k].chunk.deltas) = f.dir[k].rectCount

\* decodeZMCF(buf) of zmc-pack.
decodeZMCF(f) ==
    IF zmcfReadable(f)
    THEN [state |-> "built", baseZoom |-> f.baseZoom, levels |-> zmcfLevels(f)]
    ELSE [state |-> "error"]

\* The point lies in the rectangle, bounds included.
RectQHolds(r, latQ, lonQ) ==
    r.minLatQ <= latQ /\ latQ <= r.maxLatQ /\ r.minLonQ <= lonQ /\ lonQ <= r.maxLonQ

\* The scan both queries make: the z of the first level, in the order given,
\* with a rectangle holding the point; base when there is none.
RECURSIVE scanLevels(_, _, _, _, _)
scanLevels(levels, k, latQ, lonQ, base) ==
    IF k > Len(levels) THEN base
    ELSE IF \E i \in 1 .. Len(levels[k].rectsQ) : RectQHolds(levels[k].rectsQ[i], latQ, lonQ)
    THEN levels[k].z
    ELSE scanLevels(levels, k + 1, latQ, lonQ, base)

\* queryMaxZoom(buf, lat, lon) of zmc-pack: scans decoded.levels as stored.
queryMaxZoom(f, lat, lon) ==
    LET decoded == decodeZMCF(f)
    IN  scanLevels(decoded.levels, 1, quantizeMicrodeg(lat), quantizeMicrodeg(lon),
                   decoded.baseZoom)

\* levels.slice().sort((a, b) => b.z - a.z): descending z, equal z in order.
RECURSIVE sortLevelsDesc(_, _)
sortLevelsDesc(levels, z) ==
    IF z < 0 THEN << >>
    ELSE LET AtZ(L) == L.z = z
         IN  SelectSeq(levels, AtZ) \o sortLevelsDesc(levels, z - 1)

\* ZMCF.fromArrayBuffer(ab): the constructor sorts the levels.
zmcfFromArrayBuffer(f) ==
    IF zmcfReadable(f)
    THEN [state |-> "built", baseZoom |-> f.baseZoom,
          levels |-> sortLevelsDesc(zmcfLevels(f), MaxZoom + 1)]
    ELSE [state |-> "error"]

\* ZMCF.queryMaxZoom(latDeg, lonDeg)
zmcfQueryMaxZoom(t, lat, lon) ==
    scanLevels(t.levels, 1, quantizeMicrodeg(lat), quantizeMicrodeg(lon), t.baseZoom)

\* Rectangle lists of a layer, in whole degrees; the last crosses the
\* antimeridian.
ZmcfRectLists ==
    << << ZRect(0, -90, 60, 45) >>,
       << ZRect(0, 0, 30, 45) >>,
       << ZRect(0, 0, 30, 45), ZRect(-30, -90, 0, 0) >>,
       << ZRect(-30, 170, 30, -170) >> >>

ZmcfZooms == 1 .. MaxZoom + 1
ZmcfBaseZoom == 0

\* The layers maps handed to encodeZMCF: some zooms, each with one of the lists.
ZmcfLayers ==
    { [z \in { y \in ZmcfZooms : c[y] # 0 } |-> ZmcfRectLists[c[z]]] :
        c \in [ZmcfZooms -> 0 .. Len(ZmcfRectLists)] }

\* Well-formed files: the level directory and chunks encodeZMCF writes, the
\* directory entries stored in any order.
ZmcfFiles ==
    UNION { LET f == encodeZMCF(ZmcfBaseZoom, layers)
                n == Len(f.dir)
            IN  { [f EXCEPT !.dir = [k \in 1 .. n |-> f.dir[p[k]]]] :
                    p \in { q \in [1 .. n -> 1 .. n] : \A i, j \in 1 .. n : q[i] = q[j] => i = j } }
          : layers \in ZmcfLayers }

ZmcfLats == { -45, 0, 20, 60 }
ZmcfLons == { -180, -100, 0, 30, 175 }

InitZmcf ==
    /\ inv = << >>
    /\ optBaseZoom = Undefined /\ optZmax = Undefined
    /\ pc = "zmcf-file"
    /\ cursor = 1
    /\ enc = [baseZoom |-> 0, zmax |-> 0, baseDatasetId |-> -1]
    /\ datasets = << >>
    /\ perZoomRows = << >>
    /\ obj \in ZmcfFiles
    /\ tam = NoTam
    /\ res = NoRes
    /\ runs = << >>
    /\ lastCall = NoCall
    /\ firstOut = NoOut

\* ZMCF.fromArrayBuffer(ab) in the browser.
ZmcfFromArrayBuffer ==
    /\ pc = "zmcf-file"
    /\ tam' = zmcfFromArrayBuffer(obj)
    /\ pc' = "zmcf-loaded"
    /\ UNCHANGED << inv, optBaseZoom, optZmax, cursor, enc, datasets, perZoomRows,
                    obj, res, runs, lastCall, firstOut >>

\* zmc.queryMaxZoom(lat, lon) on the browser object.
ZmcfQueryMaxZoom ==
    /\ pc = "zmcf-loaded" /\ tam.state = "built"
    /\ \E lat \in ZmcfLats, lon \in ZmcfLons :
          res' = [op |-> "ZMCF.queryMaxZoom", lat |-> lat, lon |-> lon,
                  out |-> zmcfQueryMaxZoom(tam, lat, lon)]
    /\ pc' = "zmcf-answered"
    /\ UNCHANGED << inv, optBaseZoom, optZmax, cursor, enc, datasets, perZoomRows,
                    obj, tam, runs, lastCall, firstOut >>

\* queryMaxZoom(buf, lat, lon) of the Node reference on the same file.
NodeQueryMaxZoom ==
    /\ pc = "zmcf-loaded"
    /\ \E lat \in ZmcfLats, lon \in ZmcfLons :
          res' = [op |-> "queryMaxZoom", lat |-> lat, lon |-> lon,
                  out |-> queryMaxZoom(obj, lat, lon)]
    /\ pc' = "zmcf-answered"
    /\ UNCHANGED << inv, optBaseZoom, optZmax, cursor, enc, datasets, perZoomRows,
                    obj, tam, runs, lastCall, firstOut >>

\* The caller takes the answer; the file and the object stay as they are.
ZmcfReturn ==
    /\ pc = "zmcf-answered"
    /\ pc' = "zmcf-loaded"
    /\ res' = NoRes
    /\ UNCHANGED << inv, optBaseZoom, optZmax, cursor, enc, datasets, perZoomRows,
                    obj, tam, runs, lastCall, firstOut >>

NextZmcf ==
    \/ ZmcfFromArrayBuffer
    \/ ZmcfQueryMaxZoom
    \/ NodeQueryMaxZoom
    \/ ZmcfReturn

SpecZmcf == InitZmcf /\ [][NextZmcf]_vars

-----------------------------------------------------------------------------
(* Two overlays on one row: the calls insertRectCoverage makes for two items *)
(* whose column ranges meet in a row.                                        *)

\* Windows of columns with x0 <= x1.
Windows == { w \in (0 .. RowWidth - 1) \X (0 .. RowWidth - 1) : w[1] <= w[2] }

InitPair ==
    /\ inv = << >>
    /\ optBaseZoom = Undefined
    /\ optZmax = Undefined
    /\ pc = "pair"
    /\ cursor = 1
    /\ enc = [baseZoom |-> 0, zmax |-> 0, baseDatasetId |-> -1]
    /\ datasets = << >>
    /\ perZoomRows = << >>
    /\ obj = NullObj
    /\ tam = NoTam
    /\ res = NoRes
    /\ runs \in RunLists
    /\ lastCall = NoCall
    /\ firstOut = NoOut

\* The first item's call: runArr = overlayRange(runArr, x0, x1, ds).
OverlayFirst ==
    /\ pc = "pair"
    /\ \E w \in Windows, ds \in DsIds :
          /\ runs' = overlayRange(runs, w[1], w[2], ds)
          /\ lastCall' = [op |-> "overlayRange", x0 |-> w[1], x1 |-> w[2], ds |-> ds,
                          before |-> runs]
    /\ res' = NoRes
    /\ pc' = "pair-one"
    /\ UNCHANGED << inv, optBaseZoom, optZmax, cursor, enc, datasets, perZoomRows,
                    obj, tam, firstOut >>

\* The second item's call on the row the first left; res keeps the first call.
OverlaySecond ==
    /\ pc = "pair-one"
    /\ \E w \in Windows, ds \in DsIds :
          /\ runs' = overlayRange(runs, w[1], w[2], ds)
          /\ lastCall' = [op |-> "overlayRange", x0 |-> w[1], x1 |-> w[2], ds |-> ds,
                          before |-> runs]
    /\ res' = lastCall
    /\ pc' = "pair-two"
    /\ UNCHANGED << inv, optBaseZoom, optZmax, cursor, enc, datasets, perZoomRows,
                    obj, tam, firstOut >>

NextPair ==
    \/ OverlayFirst
    \/ OverlaySecond

SpecPair == InitPair /\ [][NextPair]_vars

-----------------------------------------------------------------------------
(* The projector's column ranges on arbitrary longitude bounds *)

\* Longitude bounds handed to xRangesAtZoom, some outside [-180, 180].
ProjectLons == { -190, -180, -170, -90, 0, 45, 90, 170, 180, 190, 350 }
ProjectZooms == 1 .. MaxZoom + 1

InitProject ==
    /\ inv = << >>
    /\ optBaseZoom = Undefined
    /\ optZmax = Undefined
    /\ pc = "project"
    /\ cursor = 1
    /\ enc = [baseZoom |-> 0, zmax |-> 0, baseDatasetId |-> -1]
    /\ datasets = << >>
    /\ perZoomRows = << >>
    /\ obj = NullObj
    /\ tam = NoTam
    /\ res = NoRes
    /\ runs = << >>
    /\ lastCall = NoCall
    /\ firstOut = NoOut

\* const [rangesList] = xRangesAtZoom(item.min_lon, item.max_lon, z)
XRangesCall ==
    /\ pc = "project"
    /\ \E minLon \in ProjectLons, maxLon \in ProjectLons, z \in ProjectZooms :
          res' = [op |-> "xRangesAtZoom", minLon |-> minLon, maxLon |-> maxLon, z |-> z,
                  out |-> xRangesAtZoom(minLon, maxLon, z)]
    /\ UNCHANGED << inv, optBaseZoom, optZmax, pc, cursor, enc, datasets, perZoomRows,
                    obj, tam, runs, lastCall, firstOut >>

NextProject == XRangesCall

SpecProject == InitProject /\ [][NextProject]_vars

-----------------------------------------------------------------------------
(* The loops of the core operations, one iteration per step: the while loops *)
(* of overlayRange, the binary search of datasetForTile and the level loop   *)
(* of datasetHere; encodeTamJson runs item by item as above.                 *)

\* overlayRange(runs, x0, x1, ds) is entered; lastCall holds its locals.
OverlayBegin ==
    /\ pc = "overlay"
    /\ \E x0 \in CallBounds, x1 \in CallBounds, ds \in DsIds :
          lastCall' = [op |-> "overlayRange", x0 |-> x0, x1 |-> x1, ds |-> ds,
                       before |-> runs, i |-> 1, prevPos |-> x0, out |-> << >>,
                       phase |-> IF JGt(x0, x1) THEN "return" ELSE "copy"]
    /\ pc' = "overlaying"
    /\ UNCHANGED << inv, optBaseZoom, optZmax, cursor, enc, datasets, perZoomRows,
                    obj, tam, res, runs, firstOut >>

\* The locals after one more iteration (or one more statement between loops).
overlayStep(c) ==
    LET rs == c.before
        i  == c.i
    IN  IF c.phase = "copy"
        THEN IF i <= Len(rs) /\ JLt(rs[i].x1, c.x0)
             THEN [c EXCEPT !.out = Append(@, rs[i]), !.i = i + 1]
             ELSE [c EXCEPT !.phase = "left"]
        ELSE IF c.phase = "left"
        THEN IF i <= Len(rs) /\ JLt(rs[i].x0, c.x0) /\ JGe(rs[i].x1, c.x0)
             THEN LET left == Range(rs[i].x0, c.x0 - 1, rs[i].ds)
                      out1 == IF JLe(left.x0, left.x1) THEN Append(c.out, left) ELSE c.out
                  IN  IF JGt(rs[i].x1, c.x1)
                      THEN LET out2 == IF JLe(c.x0, c.x1)
                                       THEN Append(out1, Range(c.x0, c.x1, c.ds)) ELSE out1
                           IN  [c EXCEPT !.out = Append(out2, Range(c.x1 + 1, rs[i].x1, rs[i].ds)),
                                         !.i = i + 1, !.phase = "tail"]
                      ELSE [c EXCEPT !.out = out1, !.i = i + 1, !.phase = "overlap"]
             ELSE [c EXCEPT !.phase = "overlap"]
        ELSE IF c.phase = "overlap"
        THEN IF i <= Len(rs) /\ JLe(rs[i].x0, c.x1)
             THEN LET r    == rs[i]
                      out1 == IF JLe(c.prevPos, r.x0 - 1)
                              THEN Append(c.out, Range(c.prevPos, r.x0 - 1, c.ds)) ELSE c.out
                  IN  IF JGt(r.x1, c.x1)
                      THEN LET out2 == IF JLe(r.x0, c.x1) /\ JLe(c.prevPos, c.x1)
                                       THEN Append(out1, Range(JMax(c.prevPos, r.x0), c.x1, c.ds))
                                       ELSE out1
                           IN  [c EXCEPT !.out = Append(out2, Range(c.x1 + 1, r.x1, r.ds)),
                                         !.i = i + 1, !.phase = "tail"]
                      ELSE [c EXCEPT !.out = out1, !.prevPos = JMax(c.prevPos, r.x1 + 1),
                                     !.i = i + 1]
             ELSE [c EXCEPT !.out = IF JLe(c.prevPos, c.x1)
                                    THEN Append(@, Range(c.prevPos, c.x1, c.ds)) ELSE @,
                            !.phase = "tail"]
        ELSE IF i <= Len(rs)
        THEN [c EXCEPT !.out = Append(@, rs[i]), !.i = i + 1]
        ELSE [c EXCEPT !.out = mergeNeighbors(@), !.phase = "return"]

\* One iteration inside overlayRange.
OverlayStep ==
    /\ pc = "overlaying"
    /\ lastCall.phase # "return"
    /\ lastCall' = overlayStep(lastCall)
    /\ UNCHANGED << inv, optBaseZoom, optZmax, pc, cursor, enc, datasets, perZoomRows,
                    obj, tam, res, runs, firstOut >>

\* overlayRange returns; the caller stores the list: runArr = overlayRange(...).
OverlayEnd ==
    /\ pc = "overlaying"
    /\ lastCall.phase = "return"
    /\ runs' = IF JGt(lastCall.x0, lastCall.x1) THEN lastCall.before ELSE lastCall.out
    /\ pc' = "overlay"
    /\ UNCHANGED << inv, optBaseZoom, optZmax, cursor, enc, datasets, perZoomRows,
                    obj, tam, res, lastCall, firstOut >>

\* datasetForTile(z, x, y) is entered: the level is looked up, lo and hi set.
SearchBegin ==
    /\ pc = "decoded"
    /\ \E q \in QueryTiles :
          /\ q[2] < Pow2(q[1]) /\ q[3] < Pow2(q[1])
          /\ LET slot == q[1] - tam.zbase - 1
                 none == slot < 0 \/ slot >= Len(tam.levels)
             IN  res' = [op |-> "datasetForTile", z |-> q[1], x |-> q[2], y |-> q[3],
                         lo |-> 0,
                         hi |-> IF none THEN -1 ELSE Len(tam.levels[slot + 1].rowY) - 1,
                         done |-> none, out |-> -1]
    /\ pc' = "searching"
    /\ UNCHANGED << inv, optBaseZoom, optZmax, cursor, enc, datasets, perZoomRows,
                    obj, tam, runs, lastCall, firstOut >>

\* The locals after one iteration of while (lo <= hi).
searchStep(t, c) ==
    IF c.lo > c.hi THEN [c EXCEPT !.done = TRUE, !.out = -1]
    ELSE LET L   == t.levels[c.z - t.zbase]
             mid == (c.lo + c.hi) \div 2
             yy  == L.rowY[mid + 1]
         IN  IF yy = c.y
             THEN [c EXCEPT !.done = TRUE,
                            !.out = scanRow(L, L.rowStart[mid + 1], L.rowEnd[mid + 1], c.x)]
             ELSE IF yy < c.y THEN [c EXCEPT !.lo = mid + 1]
             ELSE [c EXCEPT !.hi = mid - 1]

\* One iteration of the binary search, or its return.
SearchStep ==
    /\ pc = "searching"
    /\ IF res.done
       THEN pc' = "answered" /\ UNCHANGED res
       ELSE res' = searchStep(tam, res) /\ UNCHANGED pc
    /\ UNCHANGED << inv, optBaseZoom, optZmax, cursor, enc, datasets, perZoomRows,
                    obj, tam, runs, lastCall, firstOut >>

\* datasetHere(lat, lon) is entered: z = this.zmax, no level probed yet.
HereBegin ==
    /\ pc = "decoded"
    /\ \E lat \in QueryLats, lon \in QueryLons :
          res' = [op |-> "datasetHere", lat |-> lat, lon |-> lon, z |-> tam.zmax,
                  probes |-> 0, done |-> FALSE, out |-> [zoom |-> -1]]
    /\ pc' = "probing"
    /\ UNCHANGED << inv, optBaseZoom, optZmax, cursor, enc, datasets, perZoomRows,
                    obj, tam, runs, lastCall, firstOut >>

\* Mutant of hereStep: a level without a hit is probed again (no z--).
hereStepSameLevel(t, c) ==
    IF c.z >= t.zbase + 1
    THEN LET ds == datasetForTile(t, c.z, queryColumn(c.lon, c.z), queryRow(c.lat, c.z))
         IN  IF ds >= 0
             THEN [c EXCEPT !.probes = @ + 1, !.done = TRUE,
                            !.out = [zoom |-> c.z, datasetIndex |-> ds,
                                     dataset |-> datasetAt(t, ds)]]
             ELSE [c EXCEPT !.probes = @ + 1]
    ELSE LET base == IF t.baseDataset >= 0 THEN t.baseDataset ELSE -1
         IN  [c EXCEPT !.done = TRUE,
                       !.out = [zoom |-> t.zbase, datasetIndex |-> base,
                                dataset |-> IF base >= 0 THEN datasetAt(t, base) ELSE "null"]]

\* The locals after one iteration of for (z = zmax; z >= zbase + 1; z--), or
\* after the fallback that follows the loop.
hereStep(t, c) ==
    IF c.z >= t.zbase + 1
    THEN LET ds == datasetForTile(t, c.z, queryColumn(c.lon, c.z), queryRow(c.lat, c.z))
         IN  IF ds >= 0
             THEN [c EXCEPT !.probes = @ + 1, !.done = TRUE,
                            !.out = [zoom |-> c.z, datasetIndex |-> ds,
                                     dataset |-> datasetAt(t, ds)]]
             ELSE [c EXCEPT !.probes = @ + 1, !.z = @ - 1]
    ELSE LET base == IF t.baseDataset >= 0 THEN t.baseDataset ELSE -1
         IN  [c EXCEPT !.done = TRUE,
                       !.out = [zoom |-> t.zbase, datasetIndex |-> base,
                                dataset |-> IF base >= 0 THEN datasetAt(t, base) ELSE "null"]]

\* One probe of datasetHere, or its return.
HereStep ==
    /\ pc = "probing"
    /\ IF res.done
       THEN pc' = "answered" /\ UNCHANGED res
       ELSE res' = hereStep(tam, res) /\ UNCHANGED pc
    /\ UNCHANGED << inv, optBaseZoom, optZmax, cursor, enc, datasets, perZoomRows,
                    obj, tam, runs, lastCall, firstOut >>

InitSteps == Init \/ InitOverlay

NextSteps ==
    \/ Begin
    \/ InsertItem
    \/ BuildLevels
    \/ FromObject
    \/ SearchBegin
    \/ SearchStep
    \/ HereBegin
    \/ HereStep
    \/ Return
    \/ OverlayBegin
    \/ OverlayStep
    \/ OverlayEnd

\* for (const it of inv.items || []): the item loop moves on to the next item.
ItemStep == pc = "items" /\ cursor <= Len(inv) /\ cursor' = cursor + 1

\* Each operation runs on one thread to its return: the statement it is at is
\* executed.  Nothing makes a caller start an operation.
SpecSteps ==
    /\ InitSteps /\ [][NextSteps]_vars
    /\ WF_vars(Begin) /\ WF_cursor(ItemStep) /\ WF_vars(BuildLevels)
    /\ WF_vars(SearchStep) /\ WF_vars(HereStep)
    /\ WF_vars(OverlayStep) /\ WF_vars(OverlayEnd)

-----------------------------------------------------------------------------
(* Shared notions of the claims *)

\* The inventory items the item loop inserts: max_zoom | 0 > baseZoom.
Inserted(i) == ToInt32(inv[i].max_zoom) > enc.baseZoom

\* A column range insertRectCoverage overlays (it passes the range test).
UsableRange(r, n) == ~(JLt(r.x0, 0) \/ JGe(r.x1, n) \/ JGt(r.x0, r.x1))

\* Tile (z, x, y) lies in the footprint the projector gives item it at zoom z.
InFootprint(it, z, x, y) ==
    LET yr == yRangeAtZoom(it.min_lat, it.max_lat, z)
        rl == xRangesAtZoom(it.min_lon, it.max_lon, z)
    IN  /\ z \in itemZooms(it, enc.baseZoom, enc.zmax)
        /\ y \in RowSpan(yr[1], yr[2])
        /\ \E k \in 1 .. Len(rl) :
              UsableRange(rl[k], Pow2(z)) /\ JLe(rl[k].x0, x) /\ JLe(x, rl[k].x1)

\* The inserted items whose footprint covers the tile, by inventory position.
Coverers(z, x, y) ==
    { i \in 1 .. Len(inv) : Inserted(i) /\ InFootprint(inv[i], z, x, y) }

SetMax(S) == CHOOSE m \in S : \A v \in S : v <= m

WellFormedInventory == \A i \in 1 .. Len(inv) : inv[i] \in GoodItems

-----------------------------------------------------------------------------
(* Claims *)

\* C1: after encodeTamJson and TAM.fromObject, datasetForTile(z, x, y) of a
\* tile with zbase < z <= zmax lying in the footprint of at least one inserted
\* item returns the dataset id of the last such item in inventory order (stated
\* here for inventories of well-formed items only).
C1_RoundTripLastWins ==
    ( /\ pc = "answered"
      /\ res.op = "datasetForTile"
      /\ WellFormedInventory
      /\ tam.zbase < res.z /\ res.z <= tam.zmax
      /\ Coverers(res.z, res.x, res.y) # {} )
    => res.out = dsIndexOf(datasets, inv[SetMax(Coverers(res.z, res.x, res.y))].name)

\* C2: after any sequence of overlayRange calls from an empty row, the row has
\* x0 <= x1 in each interval, is strictly ascending by x0 and pairwise
\* disjoint, and no two touching consecutive intervals carry the same dataset.
C2_RowInvariant == RowInvariant(runs)

\* C2 witness: a call has left three intervals, two of them touching.
C2_Witness ==
    /\ lastCall.op = "overlayRange"
    /\ Len(runs) = 3
    /\ runs[2].x0 = runs[1].x1 + 1
    /\ runs[3].x0 > runs[2].x1 + 1

\* The zooms at which datasetForTile hits for the tile datasetHere derives
\* from the point (lat, lon).
HitZooms(t, lat, lon) ==
    { z \in t.zbase + 1 .. t.zmax :
        datasetForTile(t, z, queryColumn(lon, z), queryRow(lat, z)) # -1 }

\* C3: datasetHere(lat, lon) returns the greatest zoom in zbase+1 .. zmax at
\* which datasetForTile hits for the point's tile, with that hit's dataset (no
\* higher level hits); maxZoomAt returns the zoom component of that result.
C3_HighestHit ==
    ( /\ pc = "answered"
      /\ res.op \in { "datasetHere", "maxZoomAt" }
      /\ HitZooms(tam, res.lat, res.lon) # {} )
    => LET top == SetMax(HitZooms(tam, res.lat, res.lon))
           ds  == datasetForTile(tam, top, queryColumn(res.lon, top), queryRow(res.lat, top))
       IN  IF res.op = "maxZoomAt" THEN res.out = top
           ELSE /\ res.out.zoom = top
                /\ res.out.datasetIndex = ds
                /\ res.out.dataset = tam.datasets[ds + 1]

\* C3 witness: datasetHere answered from a level below zmax, the level above
\* having been probed without a hit.
C3_Witness ==
    /\ pc = "answered"
    /\ res.op = "datasetHere"
    /\ tam.zmax = tam.zbase + 2
    /\ HitZooms(tam, res.lat, res.lon) = { tam.zbase + 1 }
    /\ res.out.zoom = tam.zbase + 1

\* C4: when no level in zbase+1 .. zmax hits for the point, datasetHere returns
\* zoom = zbase with the base dataset id and datasets[base]; with no base
\* dataset (base_dataset = -1) it returns zoom = zbase, index -1, dataset null.
C4_Fallback ==
    ( /\ pc = "answered"
      /\ res.op = "datasetHere"
      /\ HitZooms(tam, res.lat, res.lon) = {} )
    => /\ res.out.zoom = tam.zbase
       /\ tam.baseDataset = obj.base_dataset
       /\ IF tam.baseDataset = -1
          THEN res.out.datasetIndex = -1 /\ res.out.dataset = "null"
          ELSE /\ res.out.datasetIndex = tam.baseDataset
               /\ res.out.dataset = tam.datasets[tam.baseDataset + 1]

\* C4 witness: levels exist, none hits, and the base dataset is returned.
C4_Witness ==
    /\ pc = "answered"
    /\ res.op = "datasetHere"
    /\ tam.zmax > tam.zbase
    /\ HitZooms(tam, res.lat, res.lon) = {}
    /\ res.out = [zoom |-> tam.zbase, datasetIndex |-> 0, dataset |-> "planet"]

\* The tuples << y, x0, x1, ds >> a row map holds.
RowMapTuples(rows) ==
    UNION { { << y, rows[y][k].x0, rows[y][k].x1, rows[y][k].ds >> : k \in 1 .. Len(rows[y]) } :
            y \in DOMAIN rows }

\* The row index of the i-th decoded interval (i from 1): the rows k with
\* rowStart[k] < i <= rowEnd[k].
RowsHolding(L, i) ==
    { k \in 1 .. Len(L.rowY) : L.rowStart[k] < i /\ i <= L.rowEnd[k] }

\* The decoded intervals of a level, in stored order, as << y, x0, x1, ds >>.
DecodedTuples(L) ==
    [i \in 1 .. Len(L.x0) |->
        << L.rowY[CHOOSE k \in RowsHolding(L, i) : TRUE], L.x0[i], L.x1[i], L.ds[i] >>]

\* C5: serializing the per-level row maps with the level builder and parsing
\* the result with TAM.fromObject yields, for every level, exactly the
\* (y, x0, x1, ds) tuples of the row map, each once, in ascending (y, x0) order.
C5_SerializationRoundTrip ==
    pc = "decoded" =>
       \A z \in tam.zbase + 1 .. tam.zmax :
          LET L    == tam.levels[z - tam.zbase]
              rows == RowsOf(perZoomRows, z)
              dec  == DecodedTuples(L)
          IN  /\ L.z = z
              /\ \A i \in 1 .. Len(L.x0) : Cardinality(RowsHolding(L, i)) = 1
              /\ { dec[i] : i \in 1 .. Len(dec) } = RowMapTuples(rows)
              /\ \A i \in 1 .. Len(dec) - 1 :
                    \/ dec[i][1] < dec[i + 1][1]
                    \/ (dec[i][1] = dec[i + 1][1] /\ dec[i][2] < dec[i + 1][2])

\* C5 witness: a decoded level with two rows more than one row apart, the
\* first holding two intervals with a gap between them and not starting at
\* column 0, beside a second non-empty level.
C5_Witness ==
    /\ pc = "decoded"
    /\ Len(tam.levels[2].rowY) = 2
    /\ tam.levels[2].rowY[2] > tam.levels[2].rowY[1] + 1
    /\ tam.levels[2].rowEnd[1] = 2
    /\ tam.levels[2].x0[1] > 0
    /\ tam.levels[2].x0[2] > tam.levels[2].x1[1] + 1
    /\ Len(tam.levels[1].rowY) = 1

\* The scenario of a global base item followed by one local item of a higher
\* maximum zoom, encoded with zbase at the base item's zoom and no zmax option.
TwoItemScenario ==
    /\ pc = "encoded"
    /\ Len(inv) = 2
    /\ isGlobalItem(inv[1])
    /\ inv[2] \in GoodItems
    /\ ~isGlobalItem(inv[2])
    /\ inv[2].min_lon <= inv[2].max_lon
    /\ inv[2].max_zoom > inv[1].max_zoom
    /\ enc.baseZoom = inv[1].max_zoom
    /\ optZmax = Undefined

\* The dataset ids of the intervals serialized in one row array.
RowArrayIds(arr) == { arr[5 + 3 * j] : j \in 0 .. arr[2] - 1 }

\* C6 as stated: in the two-item scenario the only non-empty level of the
\* output is the local item's maximum zoom, every row of which holds exactly
\* one interval tagged with the local item's dataset; the levels below it have
\* empty row arrays.
C6_OnlyAtMaxZoom ==
    TwoItemScenario =>
       \A k \in 1 .. Len(obj.levels) :
          LET lv == obj.levels[k]
          IN  IF lv.z = inv[2].max_zoom
              THEN /\ Len(lv.rows) > 0
                   /\ \A r \in 1 .. Len(lv.rows) :
                         /\ lv.rows[r][2] = 1
                         /\ RowArrayIds(lv.rows[r]) = { dsIndexOf(datasets, inv[2].name) }
              ELSE Len(lv.rows) = 0

\* C6 amended: in the two-item scenario every level zbase+1 .. max_zoom of the
\* output is non-empty and each of its rows holds exactly one interval tagged
\* with the local item's dataset; in general an interval serialized at level z
\* carries the dataset of an inserted item with zbase < z <= max_zoom.
C6_EveryLevelUpToMaxZoom ==
    /\ TwoItemScenario =>
          /\ Len(obj.levels) = inv[2].max_zoom - enc.baseZoom
          /\ \A k \in 1 .. Len(obj.levels) :
                LET lv == obj.levels[k]
                IN  /\ lv.z = enc.baseZoom + k
                    /\ Len(lv.rows) > 0
                    /\ \A r \in 1 .. Len(lv.rows) :
                          /\ lv.rows[r][2] = 1
                          /\ RowArrayIds(lv.rows[r]) = { dsIndexOf(datasets, inv[2].name) }
    /\ (pc = "encoded" /\ WellFormedInventory) =>
          \A k \in 1 .. Len(obj.levels) : \A r \in 1 .. Len(obj.levels[k].rows) :
             \A d \in RowArrayIds(obj.levels[k].rows[r]) :
                \E i \in 1 .. Len(inv) :
                   /\ Inserted(i)
                   /\ inv[i].name = datasets[d + 1]
                   /\ enc.baseZoom < obj.levels[k].z
                   /\ obj.levels[k].z <= inv[i].max_zoom

\* C6 witness: the scenario encoded with two levels above zbase, the level
\* below the local item's maximum zoom holding rows.
C6_Witness ==
    /\ TwoItemScenario
    /\ Len(obj.levels) >= 2
    /\ obj.levels[1].z < inv[2].max_zoom
    /\ Len(obj.levels[1].rows) > 0
    /\ Len(obj.levels[Len(obj.levels)].rows) > 0

\* A row array whose declared count differs from the triples it holds.
CountMismatch(arr) == Len(arr) # 2 + 3 * tokenAt(arr, 1)

\* The rows TAM.fromObject walks: those of the level entry kept for each zoom
\* in zbase+1 .. zmax.
WalkedRows(o) ==
    UNION { { levelOf(o.levels, z).rows[r] : r \in 1 .. Len(levelOf(o.levels, z).rows) } :
            z \in { w \in o.zbase + 1 .. o.zmax : hasLevel(o.levels, w) } }

\* C7 as stated: TAM.fromObject fails whenever a row it walks declares an
\* interval count that differs from the number of triples present.
C7_StructuralInconsistency ==
    ( /\ pc # "encoded"
      /\ obj # NullObj
      /\ obj.format = FormatTag
      /\ "levels" \in DOMAIN obj
      /\ \E arr \in WalkedRows(obj) : CountMismatch(arr) )
    => tam.state = "error"

\* The dataset names of the intervals held in the encoder's row maps.
NamesInRows ==
    UNION { UNION { { datasets[perZoomRows[z][y][k].ds + 1] :
                        k \in 1 .. Len(perZoomRows[z][y]) } :
                    y \in DOMAIN perZoomRows[z] } :
            z \in DOMAIN perZoomRows }

\* C8 as stated: no interval derived from an item with a missing bound or
\* max_zoom (all such items are named "m", and no other item is) is ever added
\* to any row.
C8_MalformedInput == "m" \notin NamesInRows

\* C9: for a null object or one whose format is not "tam-json-v1",
\* TAM.fromObject throws "Invalid TAM JSON: bad format" and builds nothing,
\* whatever the rest of the object holds (levels missing or malformed).
C9_FormatMismatch ==
    (pc # "encoded" /\ (obj = NullObj \/ obj.format # FormatTag))
    => /\ pc = "failed"
       /\ tam = [state |-> "error", error |-> "Invalid TAM JSON: bad format"]

\* C9 witness: a foreign format tag on an object without levels was rejected.
C9_Witness ==
    /\ pc = "failed"
    /\ obj # NullObj
    /\ obj.format = "zmj-json-v1"
    /\ "levels" \notin DOMAIN obj
    /\ tam.error = "Invalid TAM JSON: bad format"

\* The row the encoder's projector gives a latitude at zoom z: latToYf clamps
\* the latitude to the Mercator band first.
ProjectorRow(lat, z) == yRangeAtZoom(lat, lat, z)[1]

\* C10 as stated: at every level of a datasetHere query the row looked up lies
\* in 0 .. 2^z - 1 and is the row the encoder's projector assigns to the
\* latitude clamped to the Mercator band.
C10_OutOfRangeQuery ==
    (pc = "answered" /\ res.op = "datasetHere")
    => \A z \in tam.zbase + 1 .. tam.zmax :
          /\ queryRow(res.lat, z) \in 0 .. Pow2(z) - 1
          /\ queryRow(res.lat, z) = ProjectorRow(res.lat, z)

\* The columns of zoom z whose longitude span [c*360/n - 180, (c+1)*360/n - 180)
\* meets the rectangle lon >= 170 or lon <= -170.
AntimeridianColumns(z) ==
    { c \in 0 .. Pow2(z) - 1 :
        (c + 1) * LonSpan > 350 * Pow2(z) \/ c * LonSpan < 10 * Pow2(z) }

\* The columns a row attributes to dataset d.
ColumnsOf(rs, d) ==
    UNION { rs[k].x0 .. rs[k].x1 : k \in { j \in 1 .. Len(rs) : rs[j].ds = d } }

\* The item loop has just inserted the item with min_lon 170, max_lon -170 as
\* the first item overlaid.
AntimeridianInserted ==
    /\ pc = "items"
    /\ cursor > 1
    /\ inv[cursor - 1].min_lon = 170 /\ inv[cursor - 1].max_lon = -170
    /\ Inserted(cursor - 1)
    /\ \A j \in 1 .. cursor - 2 : ~Inserted(j)

\* C11: once the item with min_lon 170, max_lon -170 is overlaid, at every
\* level it applies to every affected row holds an interval of its dataset
\* ending at column 2^z - 1 and one starting at column 0, and covers exactly
\* the columns on the two sides of the antimeridian, none in between.
C11_Antimeridian ==
    AntimeridianInserted =>
       LET it == inv[cursor - 1]
           d  == dsIndexOf(datasets, it.name)
       IN  \A z \in enc.baseZoom + 1 .. (IF it.max_zoom < enc.zmax THEN it.max_zoom ELSE enc.zmax) :
              LET yr   == yRangeAtZoom(it.min_lat, it.max_lat, z)
                  rows == RowsOf(perZoomRows, z)
              IN  /\ DOMAIN rows = yr[1] .. yr[2]
                  /\ \A y \in yr[1] .. yr[2] :
                        /\ \E k \in 1 .. Len(rows[y]) :
                              rows[y][k].x1 = Pow2(z) - 1 /\ rows[y][k].ds = d
                        /\ \E k \in 1 .. Len(rows[y]) :
                              rows[y][k].x0 = 0 /\ rows[y][k].ds = d
                        /\ ColumnsOf(rows[y], d) = AntimeridianColumns(z)
                        /\ \A k \in 1 .. Len(rows[y]) : rows[y][k].ds = d

\* C11 witness: a row of zoom 2 holds the two separate intervals, at column 0
\* and at column 3, with columns 1 and 2 uncovered.
C11_Witness ==
    /\ AntimeridianInserted
    /\ 2 \in DOMAIN perZoomRows
    /\ \E y \in DOMAIN perZoomRows[2] :
          /\ Len(perZoomRows[2][y]) = 2
          /\ perZoomRows[2][y][1].x0 = 0 /\ perZoomRows[2][y][1].x1 = 0
          /\ perZoomRows[2][y][2].x0 = 3 /\ perZoomRows[2][y][2].x1 = 3

\* C12: a second encodeTamJson call on the same inventory and options returns
\* an object equal to the first in every field (format, zbase, zmax, datasets,
\* base_dataset, levels and their row arrays), whatever the first call left.
C12_Determinism ==
    (pc = "encoded" /\ firstOut # NoOut) => obj = firstOut

\* C12 witness: the second call has returned an object with two datasets and
\* two non-empty levels.
C12_Witness ==
    /\ pc = "encoded"
    /\ firstOut # NoOut
    /\ Len(obj.datasets) = 2
    /\ Len(obj.levels) = 2
    /\ Len(obj.levels[1].rows) > 0
    /\ Len(obj.levels[2].rows) > 0

\* The answer of the recorded query q on TAM t.
AnswerOn(t, q) ==
    CASE q.op = "datasetForTile" -> datasetForTile(t, q.z, q.x, q.y)
      [] q.op = "hasTile"        -> hasTile(t, q.z, q.x, q.y)
      [] q.op = "datasetHere"    -> datasetHere(t, q.lat, q.lon)
      [] q.op = "maxZoomAt"      -> maxZoomAt(t, q.lat, q.lon)

\* C13: after any sequence of datasetForTile, hasTile, datasetHere and
\* maxZoomAt calls the TAM still has every field as TAM.fromObject built it,
\* and each query's answer is the one it gives on the freshly built TAM.
C13_QueryImmutability ==
    pc \in { "decoded", "answered" } =>
       /\ tam = fromObject(obj)
       /\ pc = "answered" => res.out = AnswerOn(fromObject(obj), res)

\* C13 witness: a datasetHere query answered from a level of the index, on a
\* TAM with two levels holding intervals.
C13_Witness ==
    /\ pc = "answered"
    /\ res.op = "datasetHere"
    /\ res.out.zoom > tam.zbase
    /\ Len(tam.levels) = 2
    /\ Len(tam.levels[1].x0) > 0
    /\ Len(tam.levels[2].x0) > 0

\* Zoom z has coverage: some row of the encoder's row map holds an interval.
HasCoverage(z) ==
    \E y \in DOMAIN RowsOf(perZoomRows, z) : Len(RowsOf(perZoomRows, z)[y]) > 0

\* C14: the object encodeTamJson returns holds one level entry per zoom
\* zbase+1 .. zmax, in ascending order, the k-th carrying z = zbase + k, with
\* an empty rows array exactly for the zooms without coverage; it holds no
\* level entry when zmax <= zbase.
C14_Levels ==
    pc = "encoded" =>
       /\ Len(obj.levels) = (IF obj.zmax > obj.zbase THEN obj.zmax - obj.zbase ELSE 0)
       /\ \A k \in 1 .. Len(obj.levels) :
             /\ obj.levels[k].z = obj.zbase + k
             /\ (Len(obj.levels[k].rows) = 0) <=> ~HasCoverage(obj.zbase + k)

\* C14 witness: an object with two level entries, the first with rows and the
\* second, a zoom without coverage, with none.
C14_Witness ==
    /\ pc = "encoded"
    /\ Len(obj.levels) = 2
    /\ Len(obj.levels[1].rows) > 0
    /\ Len(obj.levels[2].rows) = 0

\* The dataset ids stored in the intervals of the encoder's row maps.
IdsInRows ==
    UNION { UNION { { perZoomRows[z][y][k].ds : k \in 1 .. Len(perZoomRows[z][y]) } :
                    y \in DOMAIN perZoomRows[z] } :
            z \in DOMAIN perZoomRows }

\* The dataset ids stored in the row arrays of an encoded object.
IdsInObject(o) ==
    UNION { UNION { RowArrayIds(o.levels[k].rows[r]) : r \in 1 .. Len(o.levels[k].rows) } :
            k \in 1 .. Len(o.levels) }

\* The dataset table holds no name twice, and every id in use indexes it.
DatasetTableSound ==
    /\ \A i, j \in 1 .. Len(datasets) : datasets[i] = datasets[j] => i = j
    /\ IdsInRows \subseteq 0 .. Len(datasets) - 1
    /\ enc.baseDatasetId \in { -1 } \cup 0 .. Len(datasets) - 1
    /\ pc = "encoded" =>
          /\ obj.datasets = datasets
          /\ IdsInObject(obj) \subseteq 0 .. Len(obj.datasets) - 1
          /\ obj.base_dataset \in { -1 } \cup 0 .. Len(obj.datasets) - 1

\* A step leaves the entries the dataset table has and at most appends.
DatasetTableGrows ==
    /\ Len(datasets') >= Len(datasets)
    /\ SubSeq(datasets', 1, Len(datasets)) = datasets

\* C15: during encoding the dataset table only grows by appending, holds each
\* name once (ids dense from 0, one id per name), and every id stored in an
\* interval, and base_dataset unless -1, indexes the table of the output.
C15_DatasetTable == [](pc \in { "start", "items", "encoded" } => DatasetTableSound)
                    /\ [][DatasetTableGrows]_vars

\* C15 witness: an output with a base dataset and a second dataset, whose id 1
\* is stored in a row.
C15_Witness ==
    /\ pc = "encoded"
    /\ obj.base_dataset = 0
    /\ Len(obj.datasets) = 2
    /\ 1 \in IdsInObject(obj)

\* The positions of the global items of the inventory, and those among them
\* of highest max_zoom.
GlobalItems == { i \in 1 .. Len(inv) : isGlobalItem(inv[i]) }
TopGlobalItems ==
    { i \in GlobalItems : \A j \in GlobalItems : ToInt32(inv[j].max_zoom) <= ToInt32(inv[i].max_zoom) }

SetMin(S) == CHOOSE m \in S : \A v \in S : m <= v

\* The names overlaid so far: those of the items before the loop position with
\* max_zoom > zbase.
OverlaidNames ==
    { inv[i].name : i \in { j \in 1 .. cursor - 1 : ToInt32(inv[j].max_zoom) > enc.baseZoom } }

\* C16: zbase is the override when one is given, else the highest max_zoom of
\* the global items, else the least max_zoom of all items, else 0; the base
\* dataset is the name of a global item of highest max_zoom, or none (-1)
\* without a global item; and only items with max_zoom > zbase are overlaid.
C16_BaseZoomSelection ==
    pc \in { "items", "encoded" } =>
       /\ enc.baseZoom =
             (IF optBaseZoom # Undefined THEN optBaseZoom
              ELSE IF GlobalItems # {}
                   THEN SetMax({ ToInt32(inv[i].max_zoom) : i \in GlobalItems })
              ELSE IF Len(inv) > 0
                   THEN SetMin({ ToInt32(inv[i].max_zoom) : i \in 1 .. Len(inv) })
              ELSE 0)
       /\ IF GlobalItems = {} THEN enc.baseDatasetId = -1
          ELSE /\ enc.baseDatasetId = 0
               /\ datasets[1] \in { inv[i].name : i \in TopGlobalItems }
       /\ { datasets[k] : k \in 1 .. Len(datasets) } =
             OverlaidNames \cup (IF GlobalItems = {} THEN {} ELSE { datasets[1] })
       /\ { datasets[d + 1] : d \in IdsInRows } \subseteq OverlaidNames

\* C16 witness: two global items, the one of lower max_zoom first; the second
\* gives zbase and the base dataset, and neither is overlaid.
C16_Witness ==
    /\ pc = "encoded"
    /\ optBaseZoom = Undefined
    /\ Len(inv) = 2
    /\ GlobalItems = { 1, 2 }
    /\ inv[1].max_zoom < inv[2].max_zoom
    /\ obj.zbase = inv[2].max_zoom
    /\ obj.datasets = << inv[2].name >>
    /\ obj.base_dataset = 0

\* The greatest max_zoom | 0 of the inventory's items, 0 without items.
TopItemZoom == SetMax({ 0 } \cup { ToInt32(inv[i].max_zoom) : i \in 1 .. Len(inv) })

\* The zmax the encoder must use under the option.
CappedZmax ==
    IF optZmax # Undefined /\ optZmax < TopItemZoom THEN optZmax ELSE TopItemZoom

\* C17: the encoder's zmax is min(opts.zmax, greatest item max_zoom), or the
\* greatest item max_zoom without the option; no row map, level entry or
\* decoded level lies above it; and datasetHere and maxZoomAt on the decoded
\* map answer with a zoom in zbase .. max(zbase, zmax).
C17_ZmaxCap ==
    pc \in { "items", "encoded", "decoded", "answered" } =>
       /\ enc.zmax = CappedZmax
       /\ DOMAIN perZoomRows \subseteq enc.baseZoom + 1 .. CappedZmax
       /\ pc # "items" =>
             /\ obj.zmax = CappedZmax
             /\ \A k \in 1 .. Len(obj.levels) : obj.levels[k].z <= CappedZmax
       /\ pc = "answered" /\ res.op = "datasetHere" =>
             /\ tam.zbase <= res.out.zoom
             /\ res.out.zoom <= (IF CappedZmax > tam.zbase THEN CappedZmax ELSE tam.zbase)
       /\ pc = "answered" /\ res.op = "maxZoomAt" =>
             /\ tam.zbase <= res.out
             /\ res.out <= (IF CappedZmax > tam.zbase THEN CappedZmax ELSE tam.zbase)

\* C17 witness: with opts.zmax = 1 below an item's max_zoom, datasetHere on the
\* decoded map answers from level 1, the capped zmax.
C17_Witness ==
    /\ pc = "answered"
    /\ res.op = "datasetHere"
    /\ optZmax = 1
    /\ TopItemZoom > 1
    /\ tam.zbase = 0
    /\ res.out.zoom = 1

\* C18 as stated: every object buildZMJFromInventory returns has the root
\* fields format = "zmj-json-v1", base_zoom, base_dataset and rects, and
\* ZMJ.fromObject accepts it.
C18_ZmjCompatibility ==
    /\ pc \in { "zmj-packed", "zmj-decoded", "zmj-failed" } =>
          /\ { "format", "base_zoom", "base_dataset", "rects" } \subseteq DOMAIN obj
          /\ obj.format = ZmjTag
    /\ pc # "zmj-failed"

\* The zooms of the levels of file f holding the point, whatever their place
\* in the level directory.
ZmcfHitZooms(f, lat, lon) ==
    { zmcfLevels(f)[k].z : k \in { j \in 1 .. Len(f.dir) :
        \E i \in 1 .. Len(zmcfLevels(f)[j].rectsQ) :
            RectQHolds(zmcfLevels(f)[j].rectsQ[i], quantizeMicrodeg(lat), quantizeMicrodeg(lon)) } }

\* C19: on a well-formed ZMCF file, whose levels may be stored in any order in
\* the level directory, queryMaxZoom(lat, lon) returns the highest zoom among
\* the levels with a rectangle holding the point (bounds included), and
\* base_zoom when no rectangle holds it; the Node reference query and the
\* browser ZMCF.queryMaxZoom give the same zoom for the same file and point.
C19_ZmcfQuery ==
    pc = "zmcf-answered" =>
        /\ res.out = ( IF ZmcfHitZooms(obj, res.lat, res.lon) = { }
                       THEN obj.baseZoom
                       ELSE SetMax(ZmcfHitZooms(obj, res.lat, res.lon)) )
        /\ queryMaxZoom(obj, res.lat, res.lon) = zmcfQueryMaxZoom(tam, res.lat, res.lon)

\* The dataset the interval list rs attributes to column c, -1 when none.
DsAtColumn(rs, c) ==
    IF \E k \in 1 .. Len(rs) : rs[k].x0 <= c /\ c <= rs[k].x1
    THEN rs[CHOOSE k \in 1 .. Len(rs) : rs[k].x0 <= c /\ c <= rs[k].x1].ds
    ELSE -1

\* The last call was overlayRange on a sorted, disjoint list with a window
\* x0 <= x1 of columns.
WindowCall ==
    /\ lastCall.op = "overlayRange"
    /\ lastCall.x0 # NaN /\ lastCall.x1 # NaN /\ lastCall.x0 <= lastCall.x1
    /\ RowInvariant(lastCall.before)

\* C20: for a sorted, disjoint interval list and a window x0 <= x1, the list
\* overlayRange returns attributes every column of x0 .. x1 to ds, and exactly
\* one of its intervals contains the window: no hole and no fragment is left
\* at an existing interval the window subsumes.
C20_OverlayWindow ==
    WindowCall =>
        /\ \A c \in lastCall.x0 .. lastCall.x1 : DsAtColumn(runs, c) = lastCall.ds
        /\ Cardinality({ k \in 1 .. Len(runs) :
                            /\ runs[k].x0 <= lastCall.x0 /\ lastCall.x1 <= runs[k].x1
                            /\ runs[k].ds = lastCall.ds }) = 1

\* C21: overlayRange(runs, x0, x1, ds) leaves the attribution of every column
\* outside [x0, x1] as it was: a column c < x0 or c > x1 has dataset d in the
\* output iff it had d in the input (intervals left or right of the window are
\* copied through, an interval straddling x0 or x1 keeps its remainder).
C21_OverlayFrame ==
    lastCall.op = "overlayRange" =>
        \A c \in 0 .. RowWidth - 1 :
            (JLt(c, lastCall.x0) \/ JGt(c, lastCall.x1)) =>
                DsAtColumn(runs, c) = DsAtColumn(lastCall.before, c)

\* C21 witness: the window cut an interval at x0 and an interval at x1, and
\* both remainders are in the output under their datasets.
C21_Witness ==
    /\ WindowCall
    /\ \E k \in 1 .. Len(lastCall.before) :
          /\ lastCall.before[k].x0 < lastCall.x0 /\ lastCall.x0 <= lastCall.before[k].x1
          /\ lastCall.before[k].ds # lastCall.ds
          /\ DsAtColumn(runs, lastCall.x0 - 1) = lastCall.before[k].ds
    /\ \E k \in 1 .. Len(lastCall.before) :
          /\ lastCall.before[k].x0 <= lastCall.x1 /\ lastCall.x1 < lastCall.before[k].x1
          /\ lastCall.before[k].ds # lastCall.ds
          /\ DsAtColumn(runs, lastCall.x1 + 1) = lastCall.before[k].ds
    /\ Len(lastCall.before) = 2

\* Two calls were made on a row, with overlapping windows and one dataset id.
SameDatasetPair ==
    /\ pc = "pair-two"
    /\ res.ds = lastCall.ds
    /\ res.x0 <= lastCall.x1 /\ lastCall.x0 <= res.x1

\* The row the same two calls leave when made in the other order.
SwappedRuns ==
    overlayRange(overlayRange(res.before, lastCall.x0, lastCall.x1, lastCall.ds),
                 res.x0, res.x1, res.ds)

\* C22: for two overlapping windows A and B in one row with the same dataset
\* id, overlay A then B leaves the same covered columns and the same dataset
\* for each column as overlay B then A, also when one window contains the
\* other.
C22_SameDatasetCommutes ==
    SameDatasetPair =>
        \A c \in 0 .. RowWidth - 1 : DsAtColumn(runs, c) = DsAtColumn(SwappedRuns, c)

\* C23: overlayRange applied twice in a row with the same window [x0, x1] and
\* the same dataset id leaves the interval list the first application left
\* (the same inventory rectangle inserted twice leaves its tiles covered).
C23_OverlayIdempotent ==
    ( /\ pc = "pair-two"
      /\ res.x0 = lastCall.x0 /\ res.x1 = lastCall.x1 /\ res.ds = lastCall.ds )
    => runs = lastCall.before

\* C24: overlayRange does not mutate its input: after the call the input list
\* has the same length and each of its interval objects the same x0, x1 and ds
\* as before the call, also when the new window is merged with a
\* copied-through neighbour of the same dataset.
C24_OverlayPure ==
    lastCall.op = "overlayRange" => lastCall.input = lastCall.before

\* A longitude brought into [-180, 180); one already in [-180, 180] is kept.
NormLon(l) == IF -180 <= l /\ l <= 180 THEN l ELSE ((l + 180) % 360) - 180

\* C25: the projector returns two column ranges exactly when the longitude
\* bounds span the antimeridian after normalization (normalized minLon >
\* normalized maxLon), also for raw bounds such as 170..190, and one range
\* otherwise; every returned range lies within [0, 2^z - 1].
C25_ColumnRanges ==
    res.op = "xRangesAtZoom" =>
        /\ Len(res.out) = ( IF NormLon(res.minLon) > NormLon(res.maxLon) THEN 2 ELSE 1 )
        /\ \A k \in 1 .. Len(res.out) :
              /\ 0 <= res.out[k].x0 /\ res.out[k].x0 <= Pow2(res.z) - 1
              /\ 0 <= res.out[k].x1 /\ res.out[k].x1 <= Pow2(res.z) - 1

\* The datasets a linear scan finds for tile (z, x, y): those of the decoded
\* intervals holding x in a row with index y of level z, zbase < z <= zmax.
LinearScan(t, z, x, y) ==
    IF z <= t.zbase \/ z > t.zmax THEN { }
    ELSE LET L == t.levels[z - t.zbase]
         IN  { L.ds[i] : i \in { j \in 1 .. Len(L.x0) :
                 /\ L.x0[j] <= x /\ x <= L.x1[j]
                 /\ \E r \in 1 .. Len(L.rowY) :
                       L.rowY[r] = y /\ L.rowStart[r] < j /\ j <= L.rowEnd[r] } }

\* C26: datasetForTile(z, x, y) agrees with a linear scan of the decoded
\* intervals: it returns ds iff level z (zbase < z <= zmax) has a row with
\* index y holding an interval with x0 <= x <= x1 tagged ds, and -1 otherwise,
\* also for z outside zbase+1 .. zmax; hasTile(z, x, y) is true exactly when
\* that result is not -1.
C26_LinearScanAgreement ==
    ( pc = "answered" /\ res.op \in { "datasetForTile", "hasTile" } ) =>
        LET found == LinearScan(tam, res.z, res.x, res.y)
            ds    == datasetForTile(tam, res.z, res.x, res.y)
        IN  /\ (IF found = { } THEN ds = -1 ELSE found = { ds })
            /\ res.op = "datasetForTile" => res.out = ds
            /\ res.op = "hasTile" => (res.out <=> ds # -1)

\* C26 witness: a tile was found in the last of several rows of its level.
C26_Witness ==
    /\ pc = "answered" /\ res.op = "datasetForTile" /\ res.out >= 0
    /\ res.z > tam.zbase /\ res.z <= tam.zmax
    /\ LET L == tam.levels[res.z - tam.zbase]
       IN  Len(L.rowY) >= 2 /\ L.rowY[Len(L.rowY)] = res.y

\* One serialized row: 2 + 3 * intervalCount integers, intervalCount >= 1,
\* every colGap >= 0 and every length >= 1.
RowArrayWellFormed(row) ==
    /\ Len(row) >= 2
    /\ row[2] >= 1
    /\ Len(row) = 2 + 3 * row[2]
    /\ \A j \in 1 .. row[2] : row[3 * j] >= 0 /\ row[3 * j + 1] >= 1

\* C27: in every level encodeTamJson emits, each row array has exactly
\* 2 + 3 * intervalCount integers with intervalCount >= 1, the first row's
\* token is a row index and every later row's delta is >= 1, every colGap is
\* >= 0 and every length >= 1; hence the row indices TAM.fromObject decodes
\* are strictly ascending within [0, 2^z - 1] and every decoded interval has
\* 0 <= x0 <= x1 <= 2^z - 1.
C27_SerializedRows ==
    /\ pc \in { "encoded", "decoded", "answered" } =>
          \A k \in 1 .. Len(obj.levels) :
             LET rows == obj.levels[k].rows
             IN  \A r \in 1 .. Len(rows) :
                    /\ RowArrayWellFormed(rows[r])
                    /\ (IF r = 1 THEN rows[r][1] >= 0 ELSE rows[r][1] >= 1)
    /\ (pc \in { "decoded", "answered" } /\ tam.state = "built") =>
          \A k \in 1 .. Len(tam.levels) :
             LET L == tam.levels[k]
                 n == Pow2(L.z)
             IN  /\ \A r \in 1 .. Len(L.rowY) :
                        /\ 0 <= L.rowY[r] /\ L.rowY[r] <= n - 1
                        /\ r > 1 => L.rowY[r - 1] < L.rowY[r]
                 /\ \A j \in 1 .. Len(L.x0) :
                        0 <= L.x0[j] /\ L.x0[j] <= L.x1[j] /\ L.x1[j] <= n - 1

\* C27 witness: a decoded level with two rows, one of them with two intervals,
\* from an inventory that also left a row without intervals.
C27_Witness ==
    /\ pc = "decoded" /\ tam.state = "built"
    /\ \E k \in 1 .. Len(obj.levels) :
          /\ Len(obj.levels[k].rows) >= 2
          /\ \E r \in 1 .. Len(obj.levels[k].rows) : obj.levels[k].rows[r][2] = 2
    /\ \E z \in DOMAIN perZoomRows : \E y \in DOMAIN perZoomRows[z] :
          Len(perZoomRows[z][y]) = 0

\* C28: at every point during encoding no entry of a per-level row map holds
\* an empty interval list: a row index is in the map only if the row has at
\* least one interval, also when all of an item's column ranges are degenerate
\* or when an overlay replaces existing coverage.
C28_SparseRows ==
    \A z \in DOMAIN perZoomRows : \A y \in DOMAIN perZoomRows[z] :
        Len(perZoomRows[z][y]) >= 1

\* The orders in which the n entries of obj.levels can be listed.
Orders(n) == { q \in [1 .. n -> 1 .. n] : \A i, j \in 1 .. n : q[i] = q[j] => i = j }

\* obj with its level entries listed in the order q.
Reordered(o, q) == [o EXCEPT !.levels = [k \in 1 .. Len(o.levels) |-> o.levels[q[k]]]]

\* obj without the level entries whose z lies outside zbase+1 .. zmax.
InRangeLevel(L) == L.z > obj.zbase /\ L.z <= obj.zmax
WithoutOutside(o) == [o EXCEPT !.levels = SelectSeq(o.levels, InRangeLevel)]

\* TAM.fromObject has built a TAM from obj.
Decoded == pc \in { "decoded", "answered" } /\ tam.state = "built"

\* obj.levels holds at most one entry per zoom.
OneEntryPerZoom ==
    \A i, j \in 1 .. Len(obj.levels) : obj.levels[i].z = obj.levels[j].z => i = j

\* The level slots: zmax - zbase of them, slot i for zoom zbase + 1 + i, a
\* zoom missing from obj.levels empty, entries outside zbase+1 .. zmax ignored.
LevelSlots ==
    /\ Len(tam.levels) = (IF obj.zmax > obj.zbase THEN obj.zmax - obj.zbase ELSE 0)
    /\ \A i \in 1 .. Len(tam.levels) :
          /\ tam.levels[i].z = obj.zbase + i
          /\ (\A k \in 1 .. Len(obj.levels) : obj.levels[k].z # obj.zbase + i)
                => tam.levels[i] = emptyLevel(obj.zbase + i)
    /\ fromObject(WithoutOutside(obj)) = tam

\* C29 as stated: TAM.fromObject builds exactly zmax - zbase level slots, slot
\* i for zoom zbase+1+i, and any permutation of obj.levels yields the same
\* index; a missing zoom decodes as an empty level and entries with z outside
\* zbase+1 .. zmax are ignored.
C29_AnyPermutation ==
    Decoded =>
        /\ LevelSlots
        /\ \A q \in Orders(Len(obj.levels)) : fromObject(Reordered(obj, q)) = tam

\* C29, amended: the same, the permutations being those of an obj.levels with
\* at most one entry per zoom; of several entries for one zoom the last one
\* in obj.levels is the one decoded.
C29_LevelIndexing ==
    Decoded =>
        /\ LevelSlots
        /\ OneEntryPerZoom =>
              \A q \in Orders(Len(obj.levels)) : fromObject(Reordered(obj, q)) = tam
        /\ \A i \in 1 .. Len(tam.levels) :
              \A k \in 1 .. Len(obj.levels) :
                 ( /\ obj.levels[k].z = obj.zbase + i
                   /\ \A j \in k + 1 .. Len(obj.levels) : obj.levels[j].z # obj.zbase + i )
                 => tam.levels[i] = decodeLevel(<< obj.levels[k] >>, obj.zbase + i)

\* C29 witness: three entries, not in ascending order of z, one of them
\* outside zbase+1 .. zmax, were decoded into two non-empty slots.
C29_Witness ==
    /\ Decoded
    /\ Len(obj.levels) = 3 /\ obj.levels[1].z > obj.levels[2].z
    /\ \E k \in 1 .. 3 : obj.levels[k].z > obj.zmax
    /\ Len(tam.levels) = 2
    /\ \A i \in 1 .. 2 : Len(tam.levels[i].rowY) = 1

\* What the stepwise loops have computed agrees with the operations.
StepsAgree ==
    /\ (pc = "answered" /\ res.op = "datasetForTile")
          => res.out = datasetForTile(tam, res.z, res.x, res.y)
    /\ (pc = "answered" /\ res.op = "datasetHere")
          => res.out = datasetHere(tam, res.lat, res.lon)
    /\ (pc = "overlaying" /\ lastCall.phase = "return" /\ ~JGt(lastCall.x0, lastCall.x1))
          => lastCall.out = overlayRange(lastCall.before, lastCall.x0, lastCall.x1, lastCall.ds)

\* overlayRange has visited no interval twice (i counts the intervals passed);
\* datasetHere has probed at most zmax - zbase levels.
StepBounds ==
    /\ pc = "overlaying" => lastCall.i <= Len(lastCall.before) + 1
    /\ pc \in { "probing", "answered" } /\ res.op = "datasetHere"
          => res.probes <= (IF tam.zmax > tam.zbase THEN tam.zmax - tam.zbase ELSE 0)

\* C30: every core operation terminates on every input: overlayRange finishes
\* after visiting each existing interval at most once, encodeTamJson finishes
\* for any finite inventory, the binary search of datasetForTile finishes for
\* any y, present or absent, and datasetHere probes at most zmax - zbase
\* levels before returning.
C30_Termination ==
    /\ [](StepsAgree /\ StepBounds)
    /\ (pc = "overlaying") ~> (pc = "overlay")
    /\ (pc = "start") ~> (pc = "encoded")
    /\ (pc = "searching") ~> (pc = "answered")
    /\ (pc = "probing") ~> (pc = "answered")

\* C30 witness: a binary search that narrowed its range and ended without
\* finding the row.
C30_Witness ==
    /\ pc = "answered" /\ res.op = "datasetForTile"
    /\ res.lo > res.hi /\ res.lo + res.hi > 0
    /\ res.out = -1

====
